---- MODULE Spec2Model ----
(***************************************************************************)
(* Verification model of the match-eco frontend (ruhanthangamani/          *)
(* srmHacakthon): the record composer, the client store and the two        *)
(* registration wizards, the Cycles graph construction, and the table      *)
(* utilities of the Match page (flatten, unionKeysWithPreferred,           *)
(* csvDownload).                                                           *)
(*                                                                         *)
(* JavaScript values are encoded as records tagged by their type, so that  *)
(* null, undefined, strings, numbers, arrays and plain objects remain      *)
(* distinct.  Strings that the code inspects character by character        *)
(* (norm, the CSV escaping) are sequences of one-character strings.        *)
(***************************************************************************)
EXTENDS Integers, Sequences, FiniteSets, Bags, TLC

VARIABLES
    pc,             \* position of the function call under study: "call" | "done"
    args,           \* the argument objects of that call (their current contents)
    ret,            \* the value the call returned
    token,          \* useAppStore.token
    wasteMaterials, \* useAppStore.wasteMaterials (persisted under portal-storage)
    wizard,         \* which wizard page is mounted: "factory" | "material"
    step,           \* the wizard's step state
    roles,          \* the wizard's roles state
    form,           \* the wizard's text inputs that handleSubmit reads
    matchResults,   \* useAppStore.matchResults
    settings,       \* useAppStore.settings
    location,       \* the router's current path
    net,            \* the async functions suspended at an await: a bag of continuations
    page            \* component state of the mounted page, when it is not a wizard

vars == <<pc, args, ret, token, wasteMaterials, wizard, step, roles, form,
          matchResults, settings, location, net, page>>

callVars == <<pc, args, ret>>
appVars == <<token, wasteMaterials, wizard, step, roles, form,
             matchResults, settings, location, net, page>>

\* what the wizards' synchronous handlers leave alone
restVars == <<matchResults, settings, location, net, page>>

(***************************************************************************)
(* Bounds of the model.                                                    *)
(***************************************************************************)
MaxRoles == 3       \* longest roles array handed to composePortalRecords
MaxStored == 2      \* longest persisted wasteMaterials list explored

(***************************************************************************)
(* Small helpers over sequences.                                           *)
(***************************************************************************)
Range(s) == {s[i] : i \in 1..Len(s)}

SeqsUpTo(S, n) == UNION {[1..k -> S] : k \in 0..n}

\* Array.prototype.includes
Includes(s, x) == \E i \in 1..Len(s) : s[i] = x

\* Array.prototype.filter(v => v !== x)
RECURSIVE Without(_, _)
Without(s, x) ==
    IF s = <<>> THEN <<>>
    ELSE IF Head(s) = x THEN Without(Tail(s), x)
         ELSE <<Head(s)>> \o Without(Tail(s), x)

\* number of entries of s equal to x
RECURSIVE Count(_, _)
Count(s, x) ==
    IF s = <<>> THEN 0
    ELSE (IF Head(s) = x THEN 1 ELSE 0) + Count(Tail(s), x)

(***************************************************************************)
(* PortalRecord and the inputs of the composer.                            *)
(*                                                                         *)
(* A JavaScript object is a function from its own keys to values, so an    *)
(* absent optional key (GENERATOR?, RECEIVER?, "Factory Type"?) is a key   *)
(* outside the DOMAIN.  null is the one-field record Null.  Of the ten     *)
(* generator fields and the seventeen receiver fields one representative   *)
(* is kept: the composer passes the detail object through by reference     *)
(* and reads none of its fields.                                           *)
(***************************************************************************)
Null == [null |-> TRUE]

\* a string held where null is also possible (token: string | null)
Str(s) == [str |-> s]

RoleOptions == {"Waste Generator", "Receiver"}

FactoryNames == {"", "A"}

CommonInputs ==
    [{"Factory Name"} -> FactoryNames]
      \cup {c \in [{"Factory Name", "Factory Type"} -> FactoryNames \cup RoleOptions] :
                /\ c["Factory Name"] \in FactoryNames
                /\ c["Factory Type"] \in RoleOptions}

GeneratorDetails == {[g \in {"Waste Type Name"} |-> "Fly Ash"]}
ReceiverDetails == {[r \in {"Raw Material Name"} |-> "Fly Ash"]}

\* { ...base, [k]: v }
Spread(base, k, v) == [f \in DOMAIN base \cup {k} |-> IF f = k THEN v ELSE base[f]]

(***************************************************************************)
(* composePortalRecords(common, generator, receiver, roles); the roles     *)
(* parameter is written roleList, roles being the wizard's state.          *)
(*                                                                         *)
(* The result is the state of every object the call can touch when it      *)
(* returns: out is the returned array, the other fields are the argument   *)
(* objects as the call leaves them.                                        *)
(***************************************************************************)

\* the receiver record carries the generator's tag
composeWrongTag(common, generator, receiver, roleList) ==
    LET base == common
        gen == IF Includes(roleList, "Waste Generator") /\ generator # Null
               THEN << [COMMON |-> Spread(base, "Factory Type", "Waste Generator"),
                        GENERATOR |-> generator] >>
               ELSE <<>>
        rec == IF Includes(roleList, "Receiver") /\ receiver # Null
               THEN << [COMMON |-> Spread(base, "Factory Type", "Waste Generator"),
                        RECEIVER |-> receiver] >>
               ELSE <<>>
    IN  [out |-> gen \o rec, common |-> common, generator |-> generator,
         receiver |-> receiver, roles |-> roleList]

\* a dual-role submission becomes one record holding both sections
composeMerged(common, generator, receiver, roleList) ==
    LET base == common
        hasGen == Includes(roleList, "Waste Generator") /\ generator # Null
        hasRec == Includes(roleList, "Receiver") /\ receiver # Null
        o == IF hasGen /\ hasRec
             THEN << [COMMON |-> Spread(base, "Factory Type", "Waste Generator"),
                      GENERATOR |-> generator, RECEIVER |-> receiver] >>
             ELSE IF hasGen
             THEN << [COMMON |-> Spread(base, "Factory Type", "Waste Generator"),
                      GENERATOR |-> generator] >>
             ELSE IF hasRec
             THEN << [COMMON |-> Spread(base, "Factory Type", "Receiver"),
                      RECEIVER |-> receiver] >>
             ELSE <<>>
    IN  [out |-> o, common |-> common, generator |-> generator,
         receiver |-> receiver, roles |-> roleList]

\* base aliases common instead of copying it, and the tag is assigned in place
composeAliasBase(common, generator, receiver, roleList) ==
    LET hasGen == Includes(roleList, "Waste Generator") /\ generator # Null
        hasRec == Includes(roleList, "Receiver") /\ receiver # Null
        last == IF hasRec THEN Spread(common, "Factory Type", "Receiver")
                ELSE IF hasGen THEN Spread(common, "Factory Type", "Waste Generator")
                ELSE common
        gen == IF hasGen THEN << [COMMON |-> last, GENERATOR |-> generator] >> ELSE <<>>
        rec == IF hasRec THEN << [COMMON |-> last, RECEIVER |-> receiver] >> ELSE <<>>
    IN  [out |-> gen \o rec, common |-> last, generator |-> generator,
         receiver |-> receiver, roles |-> roleList]

\* the detail objects are not tested: a selected role always emits a record
composeNoDetailCheck(common, generator, receiver, roleList) ==
    LET base == common
        gen == IF Includes(roleList, "Waste Generator")
               THEN << [COMMON |-> Spread(base, "Factory Type", "Waste Generator"),
                        GENERATOR |-> generator] >>
               ELSE <<>>
        rec == IF Includes(roleList, "Receiver")
               THEN << [COMMON |-> Spread(base, "Factory Type", "Receiver"),
                        RECEIVER |-> receiver] >>
               ELSE <<>>
    IN  [out |-> gen \o rec, common |-> common, generator |-> generator,
         receiver |-> receiver, roles |-> roleList]

\* one record per entry of roles, in the order of the entries
RECURSIVE composeEachEntry(_, _, _, _)
composeEachEntry(common, generator, receiver, roleList) ==
    IF roleList = <<>>
    THEN [out |-> <<>>, common |-> common, generator |-> generator,
          receiver |-> receiver, roles |-> roleList]
    ELSE LET role == Head(roleList)
             one == IF role = "Waste Generator" /\ generator # Null
                    THEN << [COMMON |-> Spread(common, "Factory Type", role),
                             GENERATOR |-> generator] >>
                    ELSE IF role = "Receiver" /\ receiver # Null
                    THEN << [COMMON |-> Spread(common, "Factory Type", role),
                             RECEIVER |-> receiver] >>
                    ELSE <<>>
             more == composeEachEntry(common, generator, receiver, Tail(roleList))
         IN  [more EXCEPT !.out = one \o @, !.roles = roleList]

composePortalRecords(common, generator, receiver, roleList) ==
    LET base == common                                      \* const base = { ...common }
        gen == IF Includes(roleList, "Waste Generator") /\ generator # Null
               THEN << [COMMON |-> Spread(base, "Factory Type", "Waste Generator"),
                        GENERATOR |-> generator] >>
               ELSE <<>>
        rec == IF Includes(roleList, "Receiver") /\ receiver # Null
               THEN << [COMMON |-> Spread(base, "Factory Type", "Receiver"),
                        RECEIVER |-> receiver] >>
               ELSE <<>>
    IN  [out |-> gen \o rec, common |-> common, generator |-> generator,
         receiver |-> receiver, roles |-> roleList]

(***************************************************************************)
(* The client store (zustand, persisted) and the state it starts in.       *)
(***************************************************************************)
NoForm == [name |-> "", userEmail |-> "", email |-> "", password |-> ""]

DefaultSettings == [defaultMaxDistance |-> 150]

AppIdle ==
    /\ token = Null
    /\ wasteMaterials = <<>>
    /\ wizard = "factory"
    /\ step = 1
    /\ roles = <<>>
    /\ form = NoForm
    /\ matchResults = Null
    /\ settings = DefaultSettings
    /\ location = "/"
    /\ net = EmptyBag
    /\ page = Null

(***************************************************************************)
(* SpecCompose: one call of composePortalRecords on every input of the     *)
(* bounded domain (the wizards and Dashboard's fallback both call it, the  *)
(* latter with whatever roles array the backend row holds).                *)
(***************************************************************************)
ComposeInputs(n) ==
    [common : CommonInputs,
     generator : GeneratorDetails \cup {Null},
     receiver : ReceiverDetails \cup {Null},
     roles : SeqsUpTo(RoleOptions, n)]

InitCompose ==
    /\ pc = "call"
    /\ args \in ComposeInputs(MaxRoles)
    /\ ret = <<>>
    /\ AppIdle

ComposeCall ==
    /\ pc = "call"
    /\ LET r == composePortalRecords(args.common, args.generator, args.receiver, args.roles)
       IN  /\ ret' = r.out
           /\ args' = [common |-> r.common, generator |-> r.generator,
                       receiver |-> r.receiver, roles |-> r.roles]
    /\ pc' = "done"
    /\ UNCHANGED appVars

NextCompose == ComposeCall

SpecCompose == InitCompose /\ [][NextCompose]_vars

(***************************************************************************)
(* Claims about composePortalRecords.                                      *)
(***************************************************************************)
HasGenerator(rec) == "GENERATOR" \in DOMAIN rec
HasReceiver(rec) == "RECEIVER" \in DOMAIN rec
ExactlyOneSection(rec) == HasGenerator(rec) # HasReceiver(rec)
RoleOf(rec) == IF HasGenerator(rec) THEN "Waste Generator" ELSE "Receiver"

RecordsWellTagged(recs) ==
    \A i \in 1..Len(recs) :
        /\ ExactlyOneSection(recs[i])
        /\ recs[i].COMMON["Factory Type"] = RoleOf(recs[i])

ComposeDoneNonNull ==
    /\ pc = "done"
    /\ args.generator # Null
    /\ args.receiver # Null

\* C1 as stated: with non-null generator and receiver details the call returns
\* one record per roles ENTRY naming the generator role plus one per roles entry
\* naming the receiver role, each with exactly one section and the matching tag.
C1_OneRecordPerRolesEntry ==
    ComposeDoneNonNull =>
        /\ Len(ret) = Count(args.roles, "Waste Generator") + Count(args.roles, "Receiver")
        /\ RecordsWellTagged(ret)

\* C1 amended: with non-null generator and receiver details the call returns one
\* record per DISTINCT role occurring in roles (a role named several times still
\* yields one record), each with exactly one of GENERATOR/RECEIVER populated and
\* COMMON["Factory Type"] equal to that record's role.
C1_OneRecordPerDistinctRole ==
    ComposeDoneNonNull =>
        /\ Len(ret) = Cardinality(Range(args.roles) \cap RoleOptions)
        /\ RecordsWellTagged(ret)

\* C1 witness: a roles array naming the generator role twice and the receiver
\* role once has been composed into two records.
C1_Witness ==
    /\ ComposeDoneNonNull
    /\ Count(args.roles, "Waste Generator") = 2
    /\ Count(args.roles, "Receiver") = 1
    /\ Len(ret) = 2

\* C10: composePortalRecords has no side effects: the call leaves common,
\* generator, receiver and roles (and the store) as they were; each emitted
\* record's COMMON equals the input common on every field except "Factory Type",
\* which is added or overridden with the record's role; and the record's detail
\* section is exactly the matching input detail.
C10_ComposeIsPure ==
    [][(pc = "call" /\ pc' = "done") =>
          /\ args' = args
          /\ UNCHANGED appVars
          /\ \A i \in 1..Len(ret') :
                LET rec == ret'[i] IN
                /\ DOMAIN rec \subseteq {"COMMON", "GENERATOR", "RECEIVER"}
                /\ DOMAIN rec.COMMON = DOMAIN args.common \cup {"Factory Type"}
                /\ \A f \in DOMAIN args.common \ {"Factory Type"} :
                        rec.COMMON[f] = args.common[f]
                /\ rec.COMMON["Factory Type"] = RoleOf(rec)
                /\ HasGenerator(rec) => rec.GENERATOR = args.generator
                /\ HasReceiver(rec) => rec.RECEIVER = args.receiver
      ]_vars

\* C10 witness: two records were composed from a common that already carried a
\* "Factory Type", which the generator record overrides.
C10_Witness ==
    /\ pc = "done"
    /\ Len(ret) = 2
    /\ "Factory Type" \in DOMAIN args.common
    /\ args.common["Factory Type"] = "Receiver"
    /\ ret[1].COMMON["Factory Type"] = "Waste Generator"
    /\ ret[1].COMMON["Factory Name"] = args.common["Factory Name"]

\* C11: composePortalRecords never fails: the call completes on every input and
\* returns an array; a role whose detail object is null yields no record, a role
\* absent from roles yields no record even when its detail is given, and
\* compose(common, null, null, ["Waste Generator", "Receiver"]) is the empty list.
C11_NullDetailYieldsNoRecord ==
    /\ (pc = "call" /\ "common" \in DOMAIN args) => ENABLED ComposeCall
    /\ (pc = "done" /\ "common" \in DOMAIN args) =>
          /\ DOMAIN ret = 1..Len(ret)
          /\ (args.generator = Null \/ ~Includes(args.roles, "Waste Generator"))
                => \A i \in 1..Len(ret) : ~HasGenerator(ret[i])
          /\ (args.receiver = Null \/ ~Includes(args.roles, "Receiver"))
                => \A i \in 1..Len(ret) : ~HasReceiver(ret[i])
          /\ (args.generator = Null /\ args.receiver = Null) => ret = <<>>

\* C11 witness: both roles were requested with both details null and the call
\* returned the empty list.
C11_Witness ==
    /\ pc = "done"
    /\ args.roles = <<"Waste Generator", "Receiver">>
    /\ args.generator = Null
    /\ args.receiver = Null
    /\ ret = <<>>

\* C12: composePortalRecords returns 0, 1 or 2 records; when a generator record
\* and a receiver record are both emitted, the generator record is first and the
\* receiver record second, whatever the order of the entries of roles.
C12_GeneratorRecordFirst ==
    (pc = "done" /\ "common" \in DOMAIN args) =>
        /\ Len(ret) \in {0, 1, 2}
        /\ ((\E i \in 1..Len(ret) : HasGenerator(ret[i]))
             /\ (\E i \in 1..Len(ret) : HasReceiver(ret[i])))
              => (Len(ret) = 2 /\ HasGenerator(ret[1]) /\ ~HasReceiver(ret[1])
                  /\ HasReceiver(ret[2]) /\ ~HasGenerator(ret[2]))

\* C12 witness: roles named the receiver before the generator, and the generator
\* record still came first.
C12_Witness ==
    /\ pc = "done"
    /\ args.roles = <<"Receiver", "Waste Generator">>
    /\ Len(ret) = 2
    /\ HasGenerator(ret[1])
    /\ HasReceiver(ret[2])


(***************************************************************************)
(* Spec: the client store and the two wizards (FactoryWizard at            *)
(* /factories/new, WasteMaterialWizard in Dashboard.tsx).  Both keep step  *)
(* and roles as component state and append what composePortalRecords       *)
(* returns to the persisted wasteMaterials list.  form.name stands for the *)
(* name input (factoryName / wasteMaterialName) and, in the material       *)
(* wizard, for the three required inputs handleSubmit tests together;      *)
(* form.userEmail is the material wizard's userEmail state.                *)
(***************************************************************************)
totalSteps ==
    2 + (IF Includes(roles, "Waste Generator") THEN 1 ELSE 0)
      + (IF Includes(roles, "Receiver") THEN 1 ELSE 0)

\* useAppStore.setToken, as Login/Register (a token) and logout (null) call it
setToken(t) ==
    /\ token' = t
    /\ UNCHANGED <<wasteMaterials, wizard, step, roles, form>>
    /\ UNCHANGED restVars

SetToken == \E t \in {Null, Str("jwt")} : setToken(t) /\ UNCHANGED callVars

WizardPath(w) == IF w = "factory" THEN "/factories/new" ELSE "/waste-materials/new"

\* the wizard named by `wizard` is the mounted page
OnWizard == location = WizardPath(wizard)

\* a component that is unmounted loses its useState values
WizardUnmounted ==
    /\ step' = 1
    /\ roles' = <<>>
    /\ form' = NoForm
    /\ UNCHANGED wizard

\* useNavigate()(path)
navigate(path) ==
    /\ location' = path
    /\ IF path = location
       THEN UNCHANGED <<wizard, step, roles, form, page>>
       ELSE WizardUnmounted /\ page' = Null

\* a wizard page is mounted: every useState starts from its initial value
OpenWizard ==
    /\ \E w \in {"factory", "material"} :
          /\ wizard' = w
          /\ location' = WizardPath(w)
    /\ step' = 1
    /\ roles' = <<>>
    /\ form' = NoForm
    /\ UNCHANGED <<token, wasteMaterials>>
    /\ UNCHANGED callVars
    /\ page' = Null
    /\ UNCHANGED <<matchResults, settings, net>>

\* the pages the user reaches by a link or the address bar
OtherPaths == {"/dashboard"}

GoTo ==
    /\ \E path \in OtherPaths \ {location} : navigate(path)
    /\ UNCHANGED <<token, wasteMaterials, matchResults, settings, net>>
    /\ UNCHANGED callVars

\* the name input of step 1
TypeName ==
    /\ OnWizard
    /\ step = 1
    /\ \E n \in FactoryNames : form' = [form EXCEPT !.name = n]
    /\ UNCHANGED <<token, wasteMaterials, wizard, step, roles>>
    /\ UNCHANGED callVars
    /\ UNCHANGED restVars

\* FactoryWizard's email and password inputs of step 1
TypeCredentials ==
    /\ OnWizard
    /\ wizard = "factory"
    /\ step = 1
    /\ \/ \E e \in {"", "e@x"} : form' = [form EXCEPT !.email = e]
       \/ \E pw \in {"", "pw"} : form' = [form EXCEPT !.password = pw]
    /\ UNCHANGED <<token, wasteMaterials, wizard, step, roles>>
    /\ UNCHANGED callVars
    /\ UNCHANGED restVars

\* WasteMaterialWizard's effect: GET /auth/me answered with the account's email
FetchProfile ==
    /\ OnWizard
    /\ wizard = "material"
    /\ token # Null
    /\ form.userEmail = ""
    /\ form' = [form EXCEPT !.userEmail = "e"]
    /\ UNCHANGED <<token, wasteMaterials, wizard, step, roles>>
    /\ UNCHANGED callVars
    /\ UNCHANGED restVars

\* CheckboxGroup.handleToggle on the Roles group, which step 1 renders
handleToggle(option) ==
    roles' = IF Includes(roles, option) THEN Without(roles, option)
             ELSE Append(roles, option)

HandleToggle ==
    /\ OnWizard
    /\ step = 1
    /\ \E option \in RoleOptions : handleToggle(option)
    /\ UNCHANGED <<token, wasteMaterials, wizard, step, form>>
    /\ UNCHANGED callVars
    /\ UNCHANGED restVars

\* handleNext without the test of roles.length
HandleNextUnchecked ==
    /\ OnWizard
    /\ step < totalSteps
    /\ step' = step + 1
    /\ UNCHANGED <<token, wasteMaterials, wizard, roles, form>>
    /\ UNCHANGED callVars
    /\ UNCHANGED restVars

\* the Next button is rendered while step < totalSteps
HandleNext ==
    /\ OnWizard
    /\ step < totalSteps
    /\ step' = IF step = 1 /\ Len(roles) = 0 THEN step ELSE step + 1
    /\ UNCHANGED <<token, wasteMaterials, wizard, roles, form>>
    /\ UNCHANGED callVars
    /\ UNCHANGED restVars

\* the Previous button is disabled at step 1
HandlePrev ==
    /\ OnWizard
    /\ step # 1
    /\ step' = step - 1
    /\ UNCHANGED <<token, wasteMaterials, wizard, roles, form>>
    /\ UNCHANGED callVars
    /\ UNCHANGED restVars

\* const receiverStep = roles.includes("Waste Generator") ? 3 : 2
receiverStep == IF Includes(roles, "Waste Generator") THEN 3 ELSE 2

\* the receiver step is tested before the generator step and always at step 2
renderStepReceiverFirst ==
    IF step = 1 THEN "common"
    ELSE IF Includes(roles, "Receiver") /\ step = 2 THEN "receiver"
    ELSE IF Includes(roles, "Waste Generator") /\ step = receiverStep THEN "generator"
    ELSE "review"

\* renderStep: which of the four step bodies the wizard shows
renderStep ==
    IF step = 1 THEN "common"
    ELSE IF Includes(roles, "Waste Generator") /\ step = 2 THEN "generator"
    ELSE IF Includes(roles, "Receiver") /\ step = receiverStep THEN "receiver"
    ELSE "review"

buildCommon == [f \in {"Factory Name"} |-> form.name]

buildGenerator ==
    IF Includes(roles, "Waste Generator")
    THEN [g \in {"Waste Type Name"} |-> "Fly Ash"] ELSE Null

\* the receiver detail is never built
buildReceiverNull == Null

buildReceiver ==
    IF Includes(roles, "Receiver")
    THEN [r \in {"Raw Material Name"} |-> "Fly Ash"] ELSE Null

getPayload == composePortalRecords(buildCommon, buildGenerator, buildReceiver, roles).out

\* the new record is put in front of the list
addWasteMaterialInFront(wasteMaterial) == wasteMaterials' = <<wasteMaterial>> \o wasteMaterials

\* useAppStore.addWasteMaterial: [...state.wasteMaterials, wasteMaterial]
addWasteMaterial(wasteMaterial) == wasteMaterials' = Append(wasteMaterials, wasteMaterial)

\* records.forEach((record) => addWasteMaterial(record))
addWasteMaterials(recs) == wasteMaterials' = wasteMaterials \o recs

(***************************************************************************)
(* handleSubmit is an async function.  What runs up to its first await is  *)
(* one step; from there it is a continuation in `net`,                     *)
(*     [fn |-> the wizard, at |-> the await it is suspended at,            *)
(*      saveRes |-> the outcome held in its local saveRes / res],          *)
(* and the settling of the awaited call together with the code that runs   *)
(* up to the next await (a microtask, which no other handler interleaves)  *)
(* is a later step.  at = "auth" is `await ensureAuthToken(...)`, "save"   *)
(* the POST /factories/full, "match" `await postMatch(records)`.           *)
(***************************************************************************)
MaxInFlight == 1    \* handleSubmit calls suspended at the same time

Outcomes == {"ok", "unauthorized", "failed"}

MatchResponses == {[ranked_matches |-> <<>>]}

Suspended(fn, at, saveRes) == [fn |-> fn, at |-> at, saveRes |-> saveRes]

Spawn(fn, at) ==
    /\ BagCardinality(net) < MaxInFlight
    /\ net' = net (+) SetToBag({Suspended(fn, at, "none")})

Finish(t) == net' = net (-) SetToBag({t})

Await(t, at, saveRes) ==
    net' = (net (-) SetToBag({t})) (+) SetToBag({Suspended(t.fn, at, saveRes)})

\* FactoryWizard.handleSubmit up to its first await: the records are composed and
\* stored before anything is validated
FactorySubmit ==
    /\ OnWizard
    /\ wizard = "factory"
    /\ ~(step < totalSteps)
    /\ Len(wasteMaterials) + Len(getPayload) <= MaxStored
    /\ addWasteMaterials(getPayload)
    /\ IF form.email = "" \/ form.password = ""
       THEN UNCHANGED net
       ELSE Spawn("factory", "auth")
    /\ UNCHANGED <<token, wizard, step, roles, form, matchResults, settings, location, page>>
    /\ UNCHANGED callVars

\* WasteMaterialWizard.handleSubmit up to its first await: nothing is stored when
\* the token, the account email or a required input is missing
MaterialSubmit ==
    /\ OnWizard
    /\ wizard = "material"
    /\ ~(step < totalSteps)
    /\ IF token = Null
       THEN /\ navigate("/auth/login")
            /\ UNCHANGED <<wasteMaterials, net>>
       ELSE IF form.userEmail = "" \/ form.name = ""
       THEN UNCHANGED <<wasteMaterials, net, location, wizard, step, roles, form, page>>
       ELSE /\ Len(wasteMaterials) + Len(getPayload) <= MaxStored
            /\ addWasteMaterials(getPayload)
            /\ Spawn("material", "save")
            /\ UNCHANGED <<location, wizard, step, roles, form, page>>
    /\ UNCHANGED <<token, matchResults, settings>>
    /\ UNCHANGED callVars

\* catch (error) { ...; navigate("/dashboard") }
catchSubmit(t) ==
    /\ Finish(t)
    /\ navigate("/dashboard")
    /\ UNCHANGED matchResults

\* the match request is sent whatever the save answered
handleSubmitResumeIgnoringSave(t, outcome) ==
    CASE t.at = "auth" ->
            IF outcome = "ok"
            THEN Await(t, "save", "none")
                 /\ UNCHANGED <<location, wizard, step, roles, form, page, matchResults>>
            ELSE catchSubmit(t)
      [] t.at = "save" ->
            Await(t, "match", outcome)
            /\ UNCHANGED <<location, wizard, step, roles, form, page, matchResults>>
      [] t.at = "match" ->
            IF outcome = "ok"
            THEN /\ \E result \in MatchResponses : matchResults' = result
                 /\ Finish(t)
                 /\ navigate("/match")
            ELSE catchSubmit(t)

\* the awaited call of t settles with `outcome`, and handleSubmit runs from that
\* await to the next one or to its end
handleSubmitResume(t, outcome) ==
    CASE t.at = "auth" ->
            IF outcome = "ok"
            THEN Await(t, "save", "none")
                 /\ UNCHANGED <<location, wizard, step, roles, form, page, matchResults>>
            ELSE catchSubmit(t)
      [] t.at = "save" ->
            IF t.fn = "material" /\ outcome = "unauthorized"
            THEN /\ Finish(t)
                 /\ navigate("/auth/login")
                 /\ UNCHANGED matchResults
            ELSE IF outcome = "ok"
            THEN Await(t, "match", outcome)
                 /\ UNCHANGED <<location, wizard, step, roles, form, page, matchResults>>
            ELSE catchSubmit(t)
      [] t.at = "match" ->
            IF outcome = "ok"
            THEN /\ \E result \in MatchResponses : matchResults' = result   \* setMatchResults(result)
                 /\ Finish(t)
                 /\ navigate("/match")
            ELSE catchSubmit(t)

FactoryResume ==
    /\ \E t \in BagToSet(net) :
          /\ t.fn = "factory"
          /\ \E outcome \in Outcomes : handleSubmitResume(t, outcome)
    /\ UNCHANGED <<token, wasteMaterials, settings>>
    /\ UNCHANGED callVars

MaterialResume ==
    /\ \E t \in BagToSet(net) :
          /\ t.fn = "material"
          /\ \E outcome \in Outcomes : handleSubmitResume(t, outcome)
    /\ UNCHANGED <<token, wasteMaterials, settings>>
    /\ UNCHANGED callVars

(***************************************************************************)
(* The other callers of the store.                                         *)
(***************************************************************************)
\* Match page: GET /match/all answered OK, setStoreMatchResults(raw)
MatchPageLoaded ==
    /\ location = "/match"
    /\ token # Null
    /\ \E raw \in MatchResponses : matchResults' = raw
    /\ UNCHANGED <<token, wasteMaterials, wizard, step, roles, form, settings, location, net, page>>
    /\ UNCHANGED callVars

\* useAppStore.updateSettings: { ...state.settings, ...newSettings }
updateSettings(newSettings) ==
    settings' = [k \in DOMAIN settings \cup DOMAIN newSettings |->
                    IF k \in DOMAIN newSettings THEN newSettings[k] ELSE settings[k]]

\* Settings.handleSave
SettingsSave ==
    /\ location = "/settings"
    /\ \E d \in {100, 150} : updateSettings([defaultMaxDistance |-> d])
    /\ UNCHANGED <<token, wasteMaterials, wizard, step, roles, form, matchResults, location, net, page>>
    /\ UNCHANGED callVars

Init ==
    /\ pc = "idle"
    /\ args = Null
    /\ ret = <<>>
    /\ AppIdle

Next ==
    \/ SetToken
    \/ OpenWizard
    \/ GoTo
    \/ TypeName
    \/ TypeCredentials
    \/ FetchProfile
    \/ HandleToggle
    \/ HandleNext
    \/ HandlePrev
    \/ FactorySubmit
    \/ MaterialSubmit
    \/ FactoryResume
    \/ MaterialResume

Spec == Init /\ [][Next]_vars

\* C2: no record composePortalRecords produces for a wizard, and so no record of
\* the persisted wasteMaterials list, carries both a GENERATOR and a RECEIVER
\* section; a submission with both roles selected appends two separate records,
\* the generator's and the receiver's.
C2_NeverBothSections ==
    /\ [](\A i \in 1..Len(wasteMaterials) :
              ~(HasGenerator(wasteMaterials[i]) /\ HasReceiver(wasteMaterials[i])))
    /\ [][(wasteMaterials' # wasteMaterials
             /\ Includes(roles, "Waste Generator") /\ Includes(roles, "Receiver")) =>
            /\ Len(wasteMaterials') = Len(wasteMaterials) + 2
            /\ SubSeq(wasteMaterials', 1, Len(wasteMaterials)) = wasteMaterials
            /\ ExactlyOneSection(wasteMaterials'[Len(wasteMaterials) + 1])
            /\ ExactlyOneSection(wasteMaterials'[Len(wasteMaterials) + 2])
            /\ HasGenerator(wasteMaterials'[Len(wasteMaterials) + 1])
                 # HasGenerator(wasteMaterials'[Len(wasteMaterials) + 2])
      ]_vars

\* C2 witness: a dual-role submission of the material wizard is stored as a
\* generator record followed by a receiver record.
C2_Witness ==
    /\ wizard = "material"
    /\ Len(roles) = 2
    /\ Len(wasteMaterials) = 2
    /\ HasGenerator(wasteMaterials[1]) /\ ~HasReceiver(wasteMaterials[1])
    /\ HasReceiver(wasteMaterials[2]) /\ ~HasGenerator(wasteMaterials[2])

\* what a submission with the role selection rs has to consist of
RecordsForRoles(recs, rs) ==
    LET g == Includes(rs, "Waste Generator")
        r == Includes(rs, "Receiver")
        IsGen(rec) == /\ HasGenerator(rec) /\ ~HasReceiver(rec)
                      /\ rec.GENERATOR # Null
                      /\ rec.COMMON["Factory Type"] = "Waste Generator"
        IsRec(rec) == /\ HasReceiver(rec) /\ ~HasGenerator(rec)
                      /\ rec.RECEIVER # Null
                      /\ rec.COMMON["Factory Type"] = "Receiver"
    IN  /\ (g /\ ~r) => (Len(recs) = 1 /\ IsGen(recs[1]))
        /\ (r /\ ~g) => (Len(recs) = 1 /\ IsRec(recs[1]))
        /\ (g /\ r) => (Len(recs) = 2 /\ IsGen(recs[1]) /\ IsRec(recs[2]))

\* C13: in both wizards the generator detail is non-null exactly when the
\* generator role is selected and the receiver detail exactly when the receiver
\* role is selected; the payload composed from them, and what a submission that
\* passes the wizard's checks appends to the store, is 1 generator record for the
\* generator role alone, 1 receiver record for the receiver role alone, and for
\* both roles 2 records: COMMON+GENERATOR tagged "Waste Generator", then
\* COMMON+RECEIVER tagged "Receiver".
C13_RecordsFollowRoles ==
    /\ [](/\ (buildGenerator # Null) <=> Includes(roles, "Waste Generator")
          /\ (buildReceiver # Null) <=> Includes(roles, "Receiver")
          /\ RecordsForRoles(getPayload, roles))
    /\ [][wasteMaterials' # wasteMaterials =>
            /\ Len(wasteMaterials') > Len(wasteMaterials)
            /\ SubSeq(wasteMaterials', 1, Len(wasteMaterials)) = wasteMaterials
            /\ RecordsForRoles(SubSeq(wasteMaterials', Len(wasteMaterials) + 1,
                                      Len(wasteMaterials')), roles)
      ]_vars

\* C13 witness: the factory wizard was submitted with the receiver role alone
\* (one receiver record stored, its handleSubmit suspended), and the material
\* wizard is on its last step with both roles selected, receiver ticked first.
C13_Witness ==
    /\ Len(wasteMaterials) = 1
    /\ HasReceiver(wasteMaterials[1]) /\ ~HasGenerator(wasteMaterials[1])
    /\ \E t \in BagToSet(net) : t.fn = "factory"
    /\ wizard = "material"
    /\ OnWizard
    /\ roles = <<"Receiver", "Waste Generator">>
    /\ step = totalSteps
    /\ Len(getPayload) = 2

\* the step bodies in the order the wizard has to present them
StepsInOrder ==
    <<"common">>
      \o (IF Includes(roles, "Waste Generator") THEN <<"generator">> ELSE <<>>)
      \o (IF Includes(roles, "Receiver") THEN <<"receiver">> ELSE <<>>)
      \o <<"review">>

\* C16: in both wizards the step shown at step k is the k-th of: common details,
\* the generator step if the generator role is selected, the receiver step if the
\* receiver role is selected, the review step; the review step is the last one,
\* totalSteps is 2 plus the number of selected roles, and the buttons move the
\* wizard one step forward or back at a time.
C16_StepsInRoleOrder ==
    /\ [](OnWizard =>
            /\ totalSteps = 2 + Cardinality(Range(roles) \cap RoleOptions)
            /\ Len(StepsInOrder) = totalSteps
            /\ step \in 1..totalSteps
            /\ renderStep = StepsInOrder[step]
            /\ (renderStep = "review") <=> (step = totalSteps))
    /\ [][(OnWizard /\ OnWizard' /\ wizard' = wizard /\ step' # step) =>
              (step' = step + 1 \/ step' = step - 1 \/ step' = 1)
      ]_vars

\* C16 witness: with both roles selected (receiver ticked first) the material
\* wizard shows the receiver step at step 3 of 4.
C16_Witness ==
    /\ OnWizard
    /\ wizard = "material"
    /\ roles = <<"Receiver", "Waste Generator">>
    /\ step = 3
    /\ totalSteps = 4
    /\ renderStep = "receiver"

\* the handleSubmit calls of wizard fn suspended at the await `at`
Waiting(n, fn, at) ==
    CopiesIn(Suspended(fn, at, "none"), n) + CopiesIn(Suspended(fn, at, "ok"), n)
      + CopiesIn(Suspended(fn, at, "unauthorized"), n)
      + CopiesIn(Suspended(fn, at, "failed"), n)

\* C20: in both wizards handleSubmit goes through its backend calls in order
\* (FactoryWizard: ensureAuthToken, then POST /factories/full, then POST /match;
\* WasteMaterialWizard: POST /factories/full, then POST /match): a call waits for
\* the match request only with a save that answered OK behind it, each call
\* moves on from the await just before; matchResults is set, and the router
\* goes to /match, only in the step in which a match request settles, both
\* together; in every other step matchResults is unchanged and /match is not
\* entered.
C20_SubmitCallsInSequence ==
    /\ [](\A t \in BagToSet(net) :
              /\ t.at \in (IF t.fn = "factory" THEN {"auth", "save", "match"}
                           ELSE {"save", "match"})
              /\ t.at = "match" <=> t.saveRes = "ok"
              /\ t.at # "match" => t.saveRes = "none")
    /\ [][/\ \A fn \in {"factory", "material"} :
                /\ Waiting(net', fn, "match") > Waiting(net, fn, "match")
                      => Waiting(net', fn, "save") < Waiting(net, fn, "save")
                /\ (fn = "factory" /\ Waiting(net', fn, "save") > Waiting(net, fn, "save"))
                      => Waiting(net', fn, "auth") < Waiting(net, fn, "auth")
          /\ (matchResults' # matchResults \/ (location' = "/match" /\ location # "/match")) =>
                /\ \E fn \in {"factory", "material"} :
                      Waiting(net', fn, "match") < Waiting(net, fn, "match")
                /\ matchResults' \in MatchResponses
                /\ location' = "/match"
      ]_vars

\* C20 witness: a FactoryWizard submission went through all three calls: its
\* records are stored, nothing is in flight, the match results are set and the
\* router is at /match.
C20_Witness ==
    /\ wizard = "factory"
    /\ Len(wasteMaterials) > 0
    /\ net = EmptyBag
    /\ matchResults \in MatchResponses
    /\ location = "/match"

\* the Submit button replaces Next when step < totalSteps is false
SubmitOffered == OnWizard /\ ~(step < totalSteps)

\* C24: in both wizards, whatever roles were toggled and however Next and
\* Previous were clicked, 1 <= step <= totalSteps with totalSteps = 2 + the
\* number of selected roles; step exceeds 1 only while a role is selected, and
\* so Submit is offered only with a non-empty roles.
C24_StepWithinBounds ==
    /\ wizard \in {"factory", "material"}
    /\ totalSteps = 2 + Len(roles)
    /\ 1 <= step /\ step <= totalSteps
    /\ step > 1 => Len(roles) >= 1
    /\ SubmitOffered => roles # <<>>

\* C24 witness: the material wizard at its last step with both roles selected.
C24_Witness ==
    /\ wizard = "material"
    /\ SubmitOffered
    /\ step = 4
    /\ Len(roles) = 2

\* the client-side precondition checks of the two handleSubmit
FactoryRejects == form.email = "" \/ form.password = ""
MaterialRejects == token = Null \/ form.userEmail = "" \/ form.name = ""

\* C25: in both wizards a Submit rejected by a client-side check (no token, no
\* email or password, a required input missing) puts no request in flight and
\* leaves wasteMaterials as it was.
C25_RejectedSubmitAppendsNothing ==
    [][/\ (FactorySubmit /\ FactoryRejects) =>
              (net' = net /\ wasteMaterials' = wasteMaterials)
       /\ (MaterialSubmit /\ MaterialRejects) =>
              (net' = net /\ wasteMaterials' = wasteMaterials)
      ]_vars

\* C25 witness: the FactoryWizard is still at its last step with no email
\* typed, nothing in flight and no token, and two records are stored.
C25_Witness ==
    /\ wizard = "factory"
    /\ SubmitOffered
    /\ FactoryRejects
    /\ net = EmptyBag
    /\ token = Null
    /\ matchResults = Null
    /\ Len(wasteMaterials) = 2

(***************************************************************************)
(* SpecStore: the store driven action by action, as its callers outside    *)
(* the wizards drive it: Login/Register/logout (setToken), a wizard's      *)
(* forEach (one addWasteMaterial at a time), the Match page                *)
(* (setMatchResults), Settings (updateSettings) and Landing's "See Demo".  *)
(***************************************************************************)
StorePaths == {"/", "/match", "/settings"}

\* the members of the object create() is given
StoreMembers == {"token", "setToken", "wasteMaterials", "addWasteMaterial",
                 "matchResults", "setMatchResults", "settings", "updateSettings"}

DEMO_FACTORIES ==
    << [COMMON |-> [f \in {"Factory Type", "Factory Name"} |->
                        IF f = "Factory Type" THEN "Waste Generator" ELSE "Alpha Thermal Power"],
        GENERATOR |-> [g \in {"Waste Type Name"} |-> "Fly Ash"]],
       [COMMON |-> [f \in {"Factory Type", "Factory Name"} |->
                        IF f = "Factory Type" THEN "Receiver" ELSE "Beta Cement Works"],
        RECEIVER |-> [r \in {"Raw Material Name"} |-> "Fly Ash"]] >>

\* the records a wizard hands to addWasteMaterial
ComposedRecords ==
    UNION {Range(composePortalRecords([f \in {"Factory Name"} |-> "A"], g, r,
                                      <<"Waste Generator", "Receiver">>).out) :
              g \in GeneratorDetails, r \in ReceiverDetails}

Visit ==
    /\ \E path \in StorePaths \ {location} : navigate(path)
    /\ UNCHANGED <<token, wasteMaterials, matchResults, settings, net>>
    /\ UNCHANGED callVars

AddWasteMaterial ==
    /\ Len(wasteMaterials) < MaxStored
    /\ \E record \in ComposedRecords \cup Range(DEMO_FACTORIES) : addWasteMaterial(record)
    /\ UNCHANGED <<token, wizard, step, roles, form, matchResults, settings, location, net, page>>
    /\ UNCHANGED callVars

UncaughtTypeError == [uncaught |-> "TypeError: addFactory is not a function"]

\* Landing.handleDemoLoad: addFactory is state.addFactory, which the store does
\* not define, so the first call of the forEach throws and navigate is not reached
HandleDemoLoad ==
    /\ location = "/"
    /\ "addFactory" \notin StoreMembers
    /\ IF DEMO_FACTORIES = <<>>
       THEN navigate("/dashboard") /\ UNCHANGED wasteMaterials
       ELSE /\ page' = UncaughtTypeError
            /\ UNCHANGED <<wasteMaterials, location, wizard, step, roles, form>>
    /\ UNCHANGED <<token, matchResults, settings, net>>
    /\ UNCHANGED callVars

NextStore ==
    \/ SetToken
    \/ Visit
    \/ AddWasteMaterial
    \/ MatchPageLoaded
    \/ SettingsSave
    \/ HandleDemoLoad

SpecStore == Init /\ [][NextStore]_vars

\* C14: whatever store actions and page operations run, the persisted
\* wasteMaterials list only grows at its end: a step either leaves it as it is or
\* appends exactly one record behind the unchanged earlier ones; nothing is
\* removed, replaced or reordered.
C14_WasteMaterialsAppendOnly ==
    [][\/ wasteMaterials' = wasteMaterials
       \/ /\ Len(wasteMaterials') = Len(wasteMaterials) + 1
          /\ SubSeq(wasteMaterials', 1, Len(wasteMaterials)) = wasteMaterials
      ]_vars

\* C14 witness: every store action has run: a token is set, match results are
\* stored, the settings were changed and two records were added one by one.
C14_Witness ==
    /\ token # Null
    /\ matchResults # Null
    /\ settings # DefaultSettings
    /\ Len(wasteMaterials) = 2
    /\ wasteMaterials[1] # wasteMaterials[2]

\* what the click on "See Demo" does: the handler ends in an uncaught TypeError,
\* the record list and the location are as before
C17_Witness ==
    /\ page = UncaughtTypeError
    /\ location = "/"
    /\ wasteMaterials = <<>>

\* C17 as stated: a click on "See Demo" appends every record of DEMO_FACTORIES
\* to the store's record list and navigates to /dashboard.
C17_DemoLoadsAndNavigates ==
    [][HandleDemoLoad =>
          /\ wasteMaterials' = wasteMaterials \o DEMO_FACTORIES
          /\ location' = "/dashboard"
      ]_vars

(***************************************************************************)
(* Character-level strings: String.prototype.trim, toLowerCase, includes.  *)
(***************************************************************************)
Undefined == [undefined |-> TRUE]

UpperCase == <<"A", "B", "C", "D", "E", "F", "G", "H", "I", "J", "K", "L", "M",
               "N", "O", "P", "Q", "R", "S", "T", "U", "V", "W", "X", "Y", "Z">>
LowerCase == <<"a", "b", "c", "d", "e", "f", "g", "h", "i", "j", "k", "l", "m",
               "n", "o", "p", "q", "r", "s", "t", "u", "v", "w", "x", "y", "z">>

toLowerCaseChar(c) ==
    IF \E i \in 1..Len(UpperCase) : UpperCase[i] = c
    THEN LowerCase[CHOOSE i \in 1..Len(UpperCase) : UpperCase[i] = c]
    ELSE c

toLowerCase(s) == [i \in 1..Len(s) |-> toLowerCaseChar(s[i])]

IsWhiteSpace(c) == c \in {" ", "\t", "\n", "\r"}

RECURSIVE trimStart(_)
trimStart(s) ==
    IF s # <<>> /\ IsWhiteSpace(Head(s)) THEN trimStart(Tail(s)) ELSE s

RECURSIVE trimEnd(_)
trimEnd(s) ==
    IF s # <<>> /\ IsWhiteSpace(s[Len(s)]) THEN trimEnd(SubSeq(s, 1, Len(s) - 1)) ELSE s

trim(s) == trimEnd(trimStart(s))

\* String.prototype.includes
StringIncludes(s, needle) ==
    \E i \in 0..(Len(s) - Len(needle)) : SubSeq(s, i + 1, i + Len(needle)) = needle

(***************************************************************************)
(* Cycles.tsx: the graph fetchMaterialsAndCycles builds from materials_full *)
(* before it posts it to /cycles.                                          *)
(***************************************************************************)
MaxRows == 3        \* longest materials_full array explored

\* const norm = (s) => (s ? String(s).trim().toLowerCase() : "")
normNoTrim(s) ==
    IF s = Null \/ s = Undefined \/ s = Str(<<>>) THEN <<>>
    ELSE toLowerCase(s.str)

norm(s) ==
    IF s = Null \/ s = Undefined \/ s = Str(<<>>) THEN <<>>
    ELSE toLowerCase(trim(s.str))

\* g.factory_name || `Factory#${g.factory_id}`
Label(m) ==
    IF m.factory_name # "" THEN m.factory_name
    ELSE "Factory#" \o ToString(m.factory_id)

isGen(m) == StringIncludes(norm(m.role), <<"g", "e", "n", "e", "r", "a", "t", "o", "r">>) /\ norm(m.waste_type_name) # <<>>
isRec(m) == StringIncludes(norm(m.role), <<"r", "e", "c", "e", "i", "v", "e", "r">>) /\ norm(m.raw_material_name) # <<>>

EmptyGraph == [k \in {} |-> <<>>]

\* the body of the inner loop without the gName === rName test
visitPairWithSelfLoops(graph, g, r) ==
    LET gName == Label(g)
        rName == Label(r)
        sameMaterial == norm(g.waste_type_name) = norm(r.raw_material_name)
        withKey == IF gName \in DOMAIN graph THEN graph ELSE graph @@ (gName :> <<>>)
    IN  IF ~sameMaterial THEN graph
        ELSE IF Includes(withKey[gName], rName) THEN withKey
        ELSE [withKey EXCEPT ![gName] = Append(@, rName)]

\* the body of the inner loop comparing the names lower-cased but untrimmed
visitPairUntrimmed(graph, g, r) ==
    LET gName == Label(g)
        rName == Label(r)
        sameMaterial == normNoTrim(g.waste_type_name) = normNoTrim(r.raw_material_name)
        withKey == IF gName \in DOMAIN graph THEN graph ELSE graph @@ (gName :> <<>>)
    IN  IF ~sameMaterial THEN graph
        ELSE IF gName = rName THEN graph
        ELSE IF Includes(withKey[gName], rName) THEN withKey
        ELSE [withKey EXCEPT ![gName] = Append(@, rName)]

\* the body of the inner loop (for r of recs) for one pair
visitPair(graph, g, r) ==
    LET gName == Label(g)
        rName == Label(r)
        sameMaterial == norm(g.waste_type_name) = norm(r.raw_material_name)
        withKey == IF gName \in DOMAIN graph THEN graph ELSE graph @@ (gName :> <<>>)
    IN  IF ~sameMaterial THEN graph                         \* continue
        ELSE IF gName = rName THEN graph                    \* skip self-loop
        ELSE IF Includes(withKey[gName], rName) THEN withKey
        ELSE [withKey EXCEPT ![gName] = Append(@, rName)]

RECURSIVE forRecs(_, _, _)
forRecs(graph, g, recs) ==
    IF recs = <<>> THEN graph
    ELSE forRecs(visitPair(graph, g, Head(recs)), g, Tail(recs))

RECURSIVE forGens(_, _, _)
forGens(graph, gens, recs) ==
    IF gens = <<>> THEN graph
    ELSE forGens(forRecs(graph, Head(gens), recs), Tail(gens), recs)

buildGraph(materials_full) ==
    LET gens == SelectSeq(materials_full, isGen)
        recs == SelectSeq(materials_full, isRec)
    IN  forGens(EmptyGraph, gens, recs)

\* MaterialsRow values of the bounded domain: factories A and B and a factory
\* without a display name, as generators and as receivers, with material names
\* that differ in case and surrounding blanks, differ altogether, are blank, or
\* are null
GeneratorRole == Str(<<"W", "a", "s", "t", "e", " ", "G", "e", "n", "e", "r", "a", "t", "o", "r">>)
ReceiverRole == Str(<<"R", "e", "c", "e", "i", "v", "e", "r">>)

FlyAsh == Str(<<"F", "l", "y", " ", "A", "s", "h">>)
flyAshBlank == Str(<<"f", "l", "y", " ", "a", "s", "h", " ">>)
Slag == Str(<<"S", "l", "a", "g">>)

GeneratorRow(id, name, waste) ==
    [factory_id |-> id, factory_name |-> name, role |-> GeneratorRole,
     waste_type_name |-> waste, raw_material_name |-> Null]

ReceiverRow(id, name, raw) ==
    [factory_id |-> id, factory_name |-> name, role |-> ReceiverRole,
     waste_type_name |-> Null, raw_material_name |-> raw]

MaterialsRows ==
    {GeneratorRow(1, "A", FlyAsh),
     GeneratorRow(1, "A", Slag),
     GeneratorRow(2, "B", flyAshBlank),
     GeneratorRow(3, "", FlyAsh),
     GeneratorRow(1, "A", Str(<<" ">>)),
     ReceiverRow(2, "B", flyAshBlank),
     ReceiverRow(2, "B", Slag),
     ReceiverRow(1, "A", FlyAsh),
     ReceiverRow(3, "", flyAshBlank),
     ReceiverRow(2, "B", Null)}

InitGraph ==
    /\ pc = "call"
    /\ args \in [materials_full : SeqsUpTo(MaterialsRows, MaxRows)]
    /\ ret = EmptyGraph
    /\ AppIdle

BuildGraph ==
    /\ pc = "call"
    /\ ret' = buildGraph(args.materials_full)
    /\ pc' = "done"
    /\ UNCHANGED <<args>>
    /\ UNCHANGED appVars

NextGraph == BuildGraph

SpecGraph == InitGraph /\ [][NextGraph]_vars

(***************************************************************************)
(* Claims about the Cycles graph construction.                             *)
(***************************************************************************)
HasEdge(graph, a, b) == a \in DOMAIN graph /\ Includes(graph[a], b)

\* generator-like and receiver-like rows, as the claims define them
GeneratorLike(m) ==
    /\ StringIncludes(toLowerCase(trim(m.role.str)), <<"g", "e", "n", "e", "r", "a", "t", "o", "r">>)
    /\ m.waste_type_name # Null
    /\ trim(m.waste_type_name.str) # <<>>

ReceiverLike(m) ==
    /\ StringIncludes(toLowerCase(trim(m.role.str)), <<"r", "e", "c", "e", "i", "v", "e", "r">>)
    /\ m.raw_material_name # Null
    /\ trim(m.raw_material_name.str) # <<>>

SameMaterialName(g, r) ==
    toLowerCase(trim(g.waste_type_name.str)) = toLowerCase(trim(r.raw_material_name.str))

InputRows == Range(args.materials_full)

\* an edge a -> b is justified by a matching generator-like/receiver-like pair
Justified(a, b) ==
    \E g \in InputRows, r \in InputRows :
        /\ GeneratorLike(g) /\ ReceiverLike(r)
        /\ Label(g) = a /\ Label(r) = b
        /\ SameMaterialName(g, r)

EdgesJustified ==
    \A a \in DOMAIN ret : \A i \in 1..Len(ret[a]) : Justified(a, ret[a][i])

\* C3 as stated: for every generator-like row g and receiver-like row r with
\* different labels, the edge label(g) -> label(r) is in the adjacency list if
\* and only if the trimmed, lower-cased waste_type_name of g equals the trimmed,
\* lower-cased raw_material_name of r; and every edge is justified by such a pair.
C3_EdgeIffPairMatches ==
    pc = "done" =>
        /\ \A g \in InputRows, r \in InputRows :
              (GeneratorLike(g) /\ ReceiverLike(r) /\ Label(g) # Label(r)) =>
                  (HasEdge(ret, Label(g), Label(r)) <=> SameMaterialName(g, r))
        /\ EdgesJustified

\* C3 amended: the adjacency list contains the edge a -> b if and only if a and b
\* are different labels and SOME generator-like row labelled a and SOME
\* receiver-like row labelled b have equal trimmed, lower-cased material names
\* (rows sharing a label share one node, so a pair whose names differ may still
\* see the edge of another pair with the same two labels).
C3_EdgeIffSomePairMatches ==
    pc = "done" =>
        /\ \A g \in InputRows, r \in InputRows :
              (GeneratorLike(g) /\ ReceiverLike(r) /\ Label(g) # Label(r)) =>
                  (HasEdge(ret, Label(g), Label(r)) <=> Justified(Label(g), Label(r)))
        /\ EdgesJustified

\* C3 witness: the graph holds an edge between the labels of a generator-like
\* and a receiver-like row although the names of that pair differ, next to a
\* pair that matches only after trimming and lower-casing.
C3_Witness ==
    /\ pc = "done"
    /\ \E g \in InputRows, r \in InputRows :
          /\ GeneratorLike(g) /\ ReceiverLike(r) /\ Label(g) # Label(r)
          /\ ~SameMaterialName(g, r)
          /\ HasEdge(ret, Label(g), Label(r))
    /\ \E g \in InputRows, r \in InputRows :
          /\ GeneratorLike(g) /\ ReceiverLike(r) /\ Label(g) # Label(r)
          /\ g.waste_type_name # r.raw_material_name
          /\ SameMaterialName(g, r)
          /\ HasEdge(ret, Label(g), Label(r))

NoDuplicates(s) == \A i, j \in 1..Len(s) : s[i] = s[j] => i = j

\* C4: the adjacency list contains no self-loop and no successor list names the
\* same receiver label twice; when every row carries one and the same display
\* label (a factory that is generator and receiver of its own material) the
\* adjacency list is empty.
C4_NoSelfLoopNoDuplicate ==
    pc = "done" =>
        /\ \A a \in DOMAIN ret : ~Includes(ret[a], a) /\ NoDuplicates(ret[a])
        /\ Cardinality({Label(m) : m \in InputRows}) <= 1 => DOMAIN ret = {}

\* C4 witness: factory A is generator and receiver of the same material, which
\* gives no edge A -> A, and B receives it too, which gives the one edge A -> B.
C4_Witness ==
    /\ pc = "done"
    /\ \E g \in InputRows, r \in InputRows :
          /\ GeneratorLike(g) /\ ReceiverLike(r)
          /\ Label(g) = "A" /\ Label(r) = "A" /\ SameMaterialName(g, r)
    /\ ret = ("A" :> <<"B">>)

(***************************************************************************)
(* Match page utilities (part_002): flatten.                               *)
(*                                                                         *)
(* Values: Num(n), Null, Undefined, Arr(<<v, ...>>) and the plain object   *)
(* Obj(<<[k |-> key, v |-> value], ...>>), its entries in insertion order. *)
(* The flattened result is a function from dotted keys to values.          *)
(***************************************************************************)
MaxEntries == 5     \* most entries, over all nesting levels, of a flattened object

Num(n) == [num |-> n]
Arr(a) == [arr |-> a]
Obj(e) == [obj |-> e]

IsArray(v) == DOMAIN v = {"arr"}
IsPlainObject(v) == DOMAIN v = {"obj"}

EmptyOut == [k \in {} |-> Null]

\* out[key] = v
Put(out, key, v) == [x \in DOMAIN out \cup {key} |-> IF x = key THEN v ELSE out[x]]

\* the loop stores a nested object under its key instead of recursing into it
flattenKeepNested(obj, prefix, out) ==
    LET RECURSIVE entriesLoop(_, _)
        entriesLoop(entries, o) ==
            IF entries = <<>> THEN o
            ELSE LET k == Head(entries).k
                     v == Head(entries).v
                     key == IF prefix # "" THEN prefix \o "." \o k ELSE k
                 IN  entriesLoop(Tail(entries), Put(o, key, v))
    IN  IF obj = Null \/ obj = Undefined THEN out
        ELSE IF IsArray(obj) THEN Put(out, IF prefix # "" THEN prefix ELSE "value", obj)
        ELSE IF ~IsPlainObject(obj) THEN Put(out, IF prefix # "" THEN prefix ELSE "value", obj)
        ELSE entriesLoop(obj.obj, out)

\* arrays are walked like objects, their indices becoming key segments
RECURSIVE flattenExpandArrays(_, _, _)
flattenExpandArrays(obj, prefix, out) ==
    LET RECURSIVE entriesLoop(_, _)
        entriesLoop(entries, o) ==
            IF entries = <<>> THEN o
            ELSE LET k == Head(entries).k
                     v == Head(entries).v
                     key == IF prefix # "" THEN prefix \o "." \o k ELSE k
                 IN  entriesLoop(Tail(entries),
                                 IF IsPlainObject(v) \/ IsArray(v)
                                 THEN flattenExpandArrays(v, key, o)
                                 ELSE Put(o, key, v))
        indexed == IF IsArray(obj)
                   THEN [i \in 1..Len(obj.arr) |-> [k |-> ToString(i - 1), v |-> obj.arr[i]]]
                   ELSE <<>>
    IN  IF obj = Null \/ obj = Undefined THEN out
        ELSE IF IsArray(obj) THEN entriesLoop(indexed, out)
        ELSE IF ~IsPlainObject(obj) THEN Put(out, IF prefix # "" THEN prefix ELSE "value", obj)
        ELSE entriesLoop(obj.obj, out)

RECURSIVE flatten(_, _, _)
flatten(obj, prefix, out) ==
    LET RECURSIVE entriesLoop(_, _)
        \* for (const [k, v] of Object.entries(obj))
        entriesLoop(entries, o) ==
            IF entries = <<>> THEN o
            ELSE LET k == Head(entries).k
                     v == Head(entries).v
                     key == IF prefix # "" THEN prefix \o "." \o k ELSE k
                 IN  entriesLoop(Tail(entries),
                                 IF IsPlainObject(v)        \* v && typeof v === "object" && !Array.isArray(v)
                                 THEN flatten(v, key, o)
                                 ELSE Put(o, key, v))
    IN  IF obj = Null \/ obj = Undefined THEN out
        ELSE IF IsArray(obj) THEN Put(out, IF prefix # "" THEN prefix ELSE "value", obj)
        ELSE IF ~IsPlainObject(obj) THEN Put(out, IF prefix # "" THEN prefix ELSE "value", obj)
        ELSE entriesLoop(obj.obj, out)

\* values that are not plain objects: a number, null, and an array that holds a
\* number and an object
FlattenLeaves == {Num(1), Null, Arr(<<Num(1), Obj(<<[k |-> "b", v |-> Num(2)]>>)>>)}

\* the plain objects over the keys a, b with exactly n entries in all
RECURSIVE ObjectsOfSize(_)
ObjectsOfSize(n) ==
    LET ValuesOfCost(c) == (IF c = 0 THEN FlattenLeaves ELSE {}) \cup ObjectsOfSize(c)
    IN  IF n = 0 THEN {Obj(<<>>)}
        ELSE {Obj(<<[k |-> key, v |-> val]>>) :
                  key \in {"a", "b"}, val \in ValuesOfCost(n - 1)}
             \cup UNION {{Obj(<<[k |-> "a", v |-> v1], [k |-> "b", v |-> v2]>>) :
                             v1 \in ValuesOfCost(c), v2 \in ValuesOfCost(n - 2 - c)} :
                         c \in 0..(n - 2)}

\* {a: {b: 1, c: {d: 2}}}
FlattenExample ==
    Obj(<<[k |-> "a", v |-> Obj(<<[k |-> "b", v |-> Num(1)],
                                  [k |-> "c", v |-> Obj(<<[k |-> "d", v |-> Num(2)]>>)]>>)]>>)

\* the arguments flatten is called with: every plain object of at most n entries,
\* the values that are no plain objects, undefined, and the example
FlattenInputs(n) ==
    UNION {ObjectsOfSize(m) : m \in 0..n}
      \cup FlattenLeaves \cup {Undefined, FlattenExample}

InitFlatten ==
    /\ pc = "call"
    /\ args \in [obj : FlattenInputs(MaxEntries), prefix : {""}, out : {EmptyOut}]
    /\ ret = EmptyOut
    /\ AppIdle

FlattenCall ==
    /\ pc = "call"
    /\ ret' = flatten(args.obj, args.prefix, args.out)
    /\ pc' = "done"
    /\ UNCHANGED <<args>>
    /\ UNCHANGED appVars

NextFlatten == FlattenCall

SpecFlatten == InitFlatten /\ [][NextFlatten]_vars

(***************************************************************************)
(* Claims about flatten.                                                   *)
(***************************************************************************)
\* the key paths of v that lead through plain objects to a value that is none
RECURSIVE LeafPaths(_)
LeafPaths(v) ==
    IF ~IsPlainObject(v) THEN {<<>>}
    ELSE UNION {{<<v.obj[i].k>> \o p : p \in LeafPaths(v.obj[i].v)} : i \in 1..Len(v.obj)}

RECURSIVE ValueAt(_, _)
ValueAt(v, p) ==
    IF p = <<>> THEN v
    ELSE LET i == CHOOSE j \in 1..Len(v.obj) : v.obj[j].k = Head(p)
         IN  ValueAt(v.obj[i].v, Tail(p))

RECURSIVE JoinPath(_)
JoinPath(p) == IF Len(p) = 1 THEN p[1] ELSE p[1] \o "." \o JoinPath(Tail(p))

\* C5: for a nested record of plain objects, arrays and primitives, flatten
\* returns a single-level mapping whose keys are exactly the dot-joined paths to
\* the values that are not plain objects, each key holding that value, so that
\* no value of the result is a plain object; {a:{b:1,c:{d:2}}} yields
\* {"a.b":1,"a.c.d":2}.
C5_FlattenResolvesNesting ==
    (pc = "done" /\ IsPlainObject(args.obj)) =>
        /\ DOMAIN ret = {JoinPath(p) : p \in LeafPaths(args.obj)}
        /\ \A p \in LeafPaths(args.obj) : ret[JoinPath(p)] = ValueAt(args.obj, p)
        /\ \A key \in DOMAIN ret : ~IsPlainObject(ret[key])
        /\ args.obj = FlattenExample => ret = ("a.b" :> Num(1)) @@ ("a.c.d" :> Num(2))

\* C5 witness: the example object has been flattened into its two dotted keys.
C5_Witness ==
    /\ pc = "done"
    /\ args.obj = FlattenExample
    /\ DOMAIN ret = {"a.b", "a.c.d"}

\* C6: flatten never expands an array into indexed keys: an array found under an
\* object key is stored unchanged as one entry under that key's dotted path and
\* no key continues that path, and a top-level array or primitive is stored as
\* one entry under the literal key "value".
C6_ArraysKeptWhole ==
    pc = "done" =>
        /\ IsPlainObject(args.obj) =>
              \A p \in LeafPaths(args.obj) :
                  IsArray(ValueAt(args.obj, p)) =>
                      /\ JoinPath(p) \in DOMAIN ret
                      /\ ret[JoinPath(p)] = ValueAt(args.obj, p)
                      /\ \A i \in 1..Len(ValueAt(args.obj, p).arr) :
                            /\ (JoinPath(p) \o "." \o ToString(i - 1)) \notin DOMAIN ret
                            /\ (JoinPath(p) \o "." \o ToString(i - 1) \o ".b") \notin DOMAIN ret
        /\ (IsArray(args.obj) \/ DOMAIN args.obj = {"num"}) =>
              ret = ("value" :> args.obj)

\* C6 witness: an array nested two objects deep is the value of its dotted key.
C6_Witness ==
    /\ pc = "done"
    /\ IsPlainObject(args.obj)
    /\ "a.b" \in DOMAIN ret
    /\ IsArray(ret["a.b"])
    /\ Len(ret["a.b"].arr) = 2

(***************************************************************************)
(* Match page utilities (part_002): unionKeysWithPreferred.                *)
(***************************************************************************)
MaxUnionRows == 2   \* longest rows array handed to unionKeysWithPreferred
MaxPreferred == 2   \* longest preferred array handed to it

\* the UTF-16 code units of the keys in use; Array.prototype.sort() without a
\* comparator orders strings by them
CodeUnits(key) ==
    CASE key = "w" -> <<119>>
      [] key = "x" -> <<120>>
      [] key = "xy" -> <<120, 121>>
      [] key = "y" -> <<121>>
      [] key = "z" -> <<122>>

RECURSIVE CodeUnitsLess(_, _)
CodeUnitsLess(a, b) ==
    IF b = <<>> THEN FALSE
    ELSE IF a = <<>> THEN TRUE
    ELSE IF Head(a) # Head(b) THEN Head(a) < Head(b)
    ELSE CodeUnitsLess(Tail(a), Tail(b))

StringLess(a, b) == CodeUnitsLess(CodeUnits(a), CodeUnits(b))

\* Array.prototype.sort(): insertion into an already sorted prefix
RECURSIVE insertSorted(_, _)
insertSorted(sorted, key) ==
    IF sorted = <<>> THEN <<key>>
    ELSE IF StringLess(key, Head(sorted)) THEN <<key>> \o sorted
    ELSE <<Head(sorted)>> \o insertSorted(Tail(sorted), key)

RECURSIVE sort(_)
sort(keys) ==
    IF keys = <<>> THEN <<>> ELSE insertSorted(sort(SubSeq(keys, 1, Len(keys) - 1)), keys[Len(keys)])

\* Object.keys(r)
ObjectKeys(r) == [i \in 1..Len(r.obj) |-> r.obj[i].k]

\* s.add(k) for each key of keys: a Set keeps insertion order and no duplicate
RECURSIVE addAll(_, _)
addAll(s, keys) ==
    IF keys = <<>> THEN s
    ELSE addAll(IF Includes(s, Head(keys)) THEN s ELSE Append(s, Head(keys)), Tail(keys))

\* for (const r of rows) if (r && typeof r === "object") ...
RECURSIVE collectKeys(_, _)
collectKeys(s, rows) ==
    IF rows = <<>> THEN s
    ELSE collectKeys(IF IsPlainObject(Head(rows)) THEN addAll(s, ObjectKeys(Head(rows))) ELSE s,
                     Tail(rows))

\* the remaining keys are left in insertion order
unionKeysUnsorted(rows, preferred) ==
    LET s == collectKeys(<<>>, rows)
        InS(k) == Includes(s, k)
        NotPreferred(k) == ~Includes(preferred, k)
    IN  SelectSeq(preferred, InS) \o SelectSeq(s, NotPreferred)

\* the preferred keys are not filtered by the keys present
unionKeysAllPreferred(rows, preferred) ==
    LET s == collectKeys(<<>>, rows)
        NotPreferred(k) == ~Includes(preferred, k)
    IN  preferred \o sort(SelectSeq(s, NotPreferred))

unionKeysWithPreferred(rows, preferred) ==
    LET s == collectKeys(<<>>, rows)
        all == s                                            \* [...s]
        InS(k) == Includes(s, k)
        NotPreferred(k) == ~Includes(preferred, k)
        orderedPref == SelectSeq(preferred, InS)
        rest == sort(SelectSeq(all, NotPreferred))
    IN  orderedPref \o rest

ObjectWithKeys(keys) == Obj([i \in 1..Len(keys) |-> [k |-> keys[i], v |-> Num(1)]])

\* rows of the tables: objects, and the non-object entries the loop skips
UnionRows ==
    {ObjectWithKeys(<<"x", "y">>), ObjectWithKeys(<<"y", "z">>),
     ObjectWithKeys(<<"z", "xy", "x">>), ObjectWithKeys(<<>>), Null, Num(1)}

PreferredKeys == {"z", "x", "w"}

InitUnion ==
    /\ pc = "call"
    /\ args \in [rows : SeqsUpTo(UnionRows, MaxUnionRows),
                 preferred : SeqsUpTo(PreferredKeys, MaxPreferred)]
    /\ ret = <<>>
    /\ AppIdle

UnionCall ==
    /\ pc = "call"
    /\ ret' = unionKeysWithPreferred(args.rows, args.preferred)
    /\ pc' = "done"
    /\ UNCHANGED <<args>>
    /\ UNCHANGED appVars

NextUnion == UnionCall

SpecUnion == InitUnion /\ [][NextUnion]_vars

(***************************************************************************)
(* Claims about unionKeysWithPreferred.                                    *)
(***************************************************************************)
\* the keys of the object-typed rows
UnionOfKeys(rows) ==
    UNION {{rows[i].obj[j].k : j \in 1..Len(rows[i].obj)} :
              i \in {n \in 1..Len(rows) : IsPlainObject(rows[n])}}

StrictlyAscending(keys) ==
    \A i, j \in 1..Len(keys) : i < j => StringLess(keys[i], keys[j])

\* C7: unionKeysWithPreferred(rows, preferred) returns first the preferred keys
\* that occur in some row, in the order given by preferred, followed by all
\* remaining keys in ascending lexical order; rows [{x,y},{y,z}] with preferred
\* ["z"] yield ["z","x","y"].
C7_PreferredThenSorted ==
    pc = "done" =>
        LET InUnion(k) == k \in UnionOfKeys(args.rows)
            head == SelectSeq(args.preferred, InUnion)
            tail == SubSeq(ret, Len(head) + 1, Len(ret))
        IN  /\ Len(ret) >= Len(head)
            /\ SubSeq(ret, 1, Len(head)) = head
            /\ Range(tail) = UnionOfKeys(args.rows) \ Range(args.preferred)
            /\ StrictlyAscending(tail)
            /\ (args.rows = <<ObjectWithKeys(<<"x", "y">>), ObjectWithKeys(<<"y", "z">>)>>
                  /\ args.preferred = <<"z">>) => ret = <<"z", "x", "y">>

\* C7 witness: the example call has returned z, then x and y.
C7_Witness ==
    /\ pc = "done"
    /\ args.rows = <<ObjectWithKeys(<<"x", "y">>), ObjectWithKeys(<<"y", "z">>)>>
    /\ args.preferred = <<"z">>
    /\ ret = <<"z", "x", "y">>

MaxCsvRows == 2     \* longest rows array handed to csvDownload

DQ == "\""
NL == "\n"

Digits == <<"0", "1", "2", "3", "4", "5", "6", "7", "8", "9">>

\* String(n) for a natural number
RECURSIVE NumberToString(_)
NumberToString(n) ==
    IF n < 10 THEN <<Digits[n + 1]>>
    ELSE NumberToString(n \div 10) \o <<Digits[(n % 10) + 1]>>

RECURSIVE Concat(_)
Concat(parts) == IF parts = <<>> THEN <<>> ELSE Head(parts) \o Concat(Tail(parts))

\* Array.prototype.join(sep) on an array of strings
RECURSIVE join(_, _)
join(parts, sep) ==
    IF parts = <<>> THEN <<>>
    ELSE IF Len(parts) = 1 THEN parts[1]
    ELSE parts[1] \o sep \o join(Tail(parts), sep)

\* the text JSON.stringify gives a string: quoted, with \" \\ and \n escaped
JsonQuote(chars) ==
    <<DQ>> \o Concat([i \in 1..Len(chars) |->
                        IF chars[i] = DQ THEN <<"\\", DQ>>
                        ELSE IF chars[i] = "\\" THEN <<"\\", "\\">>
                        ELSE IF chars[i] = NL THEN <<"\\", "n">>
                        ELSE <<chars[i]>>]) \o <<DQ>>

\* the text JSON.stringify gives a value nested in an array or an object
RECURSIVE JsonText(_)
JsonText(v) ==
    IF v = Null \/ v = Undefined THEN <<"n", "u", "l", "l">>
    ELSE IF DOMAIN v = {"num"} THEN NumberToString(v.num)
    ELSE IF DOMAIN v = {"str"} THEN JsonQuote(v.str)
    ELSE IF IsArray(v)
    THEN <<"[">> \o join([i \in 1..Len(v.arr) |-> JsonText(v.arr[i])], <<",">>) \o <<"]">>
    ELSE <<"{">> \o join([i \in 1..Len(v.obj) |->
                            JsonQuote(v.obj[i].k) \o <<":">> \o JsonText(v.obj[i].v)], <<",">>)
         \o <<"}">>

\* JSON.stringify(v): undefined for undefined, a string otherwise
JSONstringify(v) == IF v = Undefined THEN Undefined ELSE Str(JsonText(v))

\* const isPrimitive = (v) => v === null || ["string","number","boolean"].includes(typeof v)
isPrimitive(v) == v = Null \/ DOMAIN v = {"str"} \/ DOMAIN v = {"num"}

toCell(v) == IF isPrimitive(v) THEN v ELSE JSONstringify(v)

\* r?.[h]
Member(r, h) ==
    IF IsPlainObject(r) /\ \E i \in 1..Len(r.obj) : r.obj[i].k = h
    THEN r.obj[CHOOSE i \in 1..Len(r.obj) : r.obj[i].k = h].v
    ELSE Undefined

\* String(cell ?? "")
StringOf(cell) ==
    IF cell = Null \/ cell = Undefined THEN <<>>
    ELSE IF DOMAIN cell = {"num"} THEN NumberToString(cell.num)
    ELSE cell.str

\* /[",\n]/.test(s)
NeedsQuoting(s) == \E i \in 1..Len(s) : s[i] \in {DQ, ",", NL}

\* s.replace(/"/g, '""')
DoubleQuotes(s) == Concat([i \in 1..Len(s) |-> IF s[i] = DQ THEN <<DQ, DQ>> ELSE <<s[i]>>])

\* the cell is wrapped but its quotes are not doubled
escapeCellNoDoubling(cell) ==
    LET s == StringOf(cell)
    IN  IF NeedsQuoting(s) THEN <<DQ>> \o s \o <<DQ>> ELSE s

\* the inner map callback: one cell to its CSV field
escapeCell(cell) ==
    LET s == StringOf(cell)
    IN  IF NeedsQuoting(s) THEN <<DQ>> \o DoubleQuotes(s) \o <<DQ>> ELSE s

NoDownload == [clicked |-> FALSE]

\* no early return: an empty rows array downloads the header line alone
csvDownloadAlways(rows, headers, filename) ==
    LET outRows == [i \in 1..Len(rows) |->
                       [j \in 1..Len(headers) |-> toCell(Member(rows[i], headers[j]))]]
        headerRow == [j \in 1..Len(headers) |-> Str(headers[j])]
        table == <<headerRow>> \o outRows
        lines == [i \in 1..Len(table) |->
                     join([j \in 1..Len(table[i]) |-> escapeCell(table[i][j])], <<",">>)]
    IN  [clicked |-> TRUE, download |-> filename, csv |-> join(lines, <<NL>>)]

\* ret: what the call did to the document (the anchor it clicked and the text of
\* the blob behind it), or NoDownload
csvDownload(rows, headers, filename) ==
    IF Len(rows) = 0 THEN NoDownload
    ELSE LET outRows == [i \in 1..Len(rows) |->
                            [j \in 1..Len(headers) |-> toCell(Member(rows[i], headers[j]))]]
             headerRow == [j \in 1..Len(headers) |-> Str(headers[j])]
             table == <<headerRow>> \o outRows
             lines == [i \in 1..Len(table) |->
                          join([j \in 1..Len(table[i]) |-> escapeCell(table[i][j])], <<",">>)]
         IN  [clicked |-> TRUE, download |-> filename, csv |-> join(lines, <<NL>>)]

HeaderA == <<"a">>
HeaderB == <<"b">>
HeaderQ == <<"q", DQ>>

CsvHeaders == {<<HeaderA, HeaderB>>, <<HeaderA>>, <<HeaderB>>, <<HeaderA, HeaderQ>>}

\* values of column a: strings with a comma, a quote, a newline, none of them;
\* null; a number; an array and an object (both JSON-serialized)
CsvCellsA ==
    {Str(<<"x", ",", "y">>), Str(<<DQ, "x">>), Str(<<"x", NL>>), Str(<<"x">>), Null,
     Arr(<<Num(1), Num(2)>>), Obj(<<[k |-> HeaderA, v |-> Num(1)]>>)}

CsvCellsB == {Num(1), Num(12)}

CsvRows ==
    {Obj(<<[k |-> HeaderA, v |-> a], [k |-> HeaderB, v |-> b]>>) : a \in CsvCellsA, b \in CsvCellsB}
      \cup {Obj(<<[k |-> HeaderB, v |-> Num(1)]>>), Null}

InitCsv ==
    /\ pc = "call"
    /\ args \in [rows : SeqsUpTo(CsvRows, MaxCsvRows), headers : CsvHeaders,
                 filename : {"materials_full.csv"}]
    /\ ret = NoDownload
    /\ AppIdle

CsvCall ==
    /\ pc = "call"
    /\ ret' = csvDownload(args.rows, args.headers, args.filename)
    /\ pc' = "done"
    /\ UNCHANGED <<args>>
    /\ UNCHANGED appVars

NextCsv == CsvCall

SpecCsv == InitCsv /\ [][NextCsv]_vars

(***************************************************************************)
(* Reading a CSV text back (RFC 4180): records split at newlines outside   *)
(* quotes, fields at commas outside quotes, a doubled quote inside a       *)
(* quoted field is one quote.  Each field is read as                       *)
(* [quoted, text, ok]; ok is FALSE when a character follows a closing      *)
(* quote.                                                                  *)
(***************************************************************************)
NewField == [quoted |-> FALSE, text |-> <<>>, ok |-> TRUE]

RECURSIVE ReadCsv(_, _, _, _, _, _)
ReadCsv(text, i, mode, field, record, records) ==
    IF i > Len(text)
    THEN Append(records, Append(record, field))
    ELSE LET c == text[i]
             endField == ReadCsv(text, i + 1, "start", NewField, Append(record, field), records)
             endRecord == ReadCsv(text, i + 1, "start", NewField, <<>>,
                                  Append(records, Append(record, field)))
             add(m, f) == ReadCsv(text, i + 1, m, f, record, records)
             plus == [field EXCEPT !.text = Append(@, c)]
         IN  CASE mode = "start" ->
                    IF c = DQ THEN add("quoted", [field EXCEPT !.quoted = TRUE])
                    ELSE IF c = "," THEN endField
                    ELSE IF c = NL THEN endRecord
                    ELSE add("plain", plus)
               [] mode = "plain" ->
                    IF c = "," THEN endField
                    ELSE IF c = NL THEN endRecord
                    ELSE add("plain", plus)
               [] mode = "quoted" ->
                    IF c = DQ THEN add("closing", field) ELSE add("quoted", plus)
               [] mode = "closing" ->
                    IF c = DQ THEN add("quoted", plus)
                    ELSE IF c = "," THEN endField
                    ELSE IF c = NL THEN endRecord
                    ELSE add("closing", [plus EXCEPT !.ok = FALSE])

\* the string form of every cell of the table, header row first
CellStrings(rows, headers) ==
    <<headers>> \o [i \in 1..Len(rows) |->
                      [j \in 1..Len(headers) |-> StringOf(toCell(Member(rows[i], headers[j])))]]

CsvExampleArgs ==
    [rows |-> <<Obj(<<[k |-> HeaderA, v |-> Str(<<"x", ",", "y">>)], [k |-> HeaderB, v |-> Num(1)]>>)>>,
     headers |-> <<HeaderA, HeaderB>>,
     filename |-> "materials_full.csv"]

CsvExampleText == <<"a", ",", "b", NL, DQ, "x", ",", "y", DQ, ",", "1">>

CsvDone == pc = "done" /\ "rows" \in DOMAIN args /\ "filename" \in DOMAIN args /\ Len(args.rows) > 0

\* C9: for a non-empty rows array the downloaded text reads back, header row first,
\* as one record per row and one field per header; every field carries the cell's
\* string form, and is wrapped in double quotes (embedded quotes doubled) exactly
\* when that string contains a comma, a double quote or a newline, verbatim otherwise.
\* Rows [{a:"x,y", b:1}] with headers [a, b] give the lines  a,b  and  "x,y",1 .
C9_CsvFieldsEscaped ==
    CsvDone =>
        LET cells == CellStrings(args.rows, args.headers)
            read == ReadCsv(ret.csv, 1, "start", NewField, <<>>, <<>>)
        IN  /\ ret.clicked
            /\ Len(read) = Len(cells)
            /\ \A i \in 1..Len(cells) :
                  /\ Len(read[i]) = Len(cells[i])
                  /\ \A j \in 1..Len(cells[i]) :
                        /\ read[i][j].ok
                        /\ read[i][j].text = cells[i][j]
                        /\ read[i][j].quoted <=> NeedsQuoting(cells[i][j])
            /\ (args = CsvExampleArgs => ret.csv = CsvExampleText)

C9_Witness ==
    /\ CsvDone
    /\ args = CsvExampleArgs
    /\ ret.clicked
    /\ ret.csv = CsvExampleText

\* C15: csvDownload with an empty rows array does nothing, whatever the headers:
\* no CSV text is built and no download is triggered.
C15_EmptyRowsNoDownload ==
    (pc = "done" /\ "filename" \in DOMAIN args /\ Len(args.rows) = 0) =>
        /\ ret = NoDownload
        /\ ~ret.clicked
        /\ "csv" \notin DOMAIN ret

\* C15 witness: the call with rows [] and headers [a] has returned.
C15_Witness ==
    /\ pc = "done"
    /\ "filename" \in DOMAIN args
    /\ args.rows = <<>>
    /\ args.headers = <<HeaderA>>
    /\ ret = NoDownload

(***************************************************************************)
(* Messages.tsx.  `page` is the component's state and `net` holds the      *)
(* calls of fetchThreads, fetchConversation and send suspended at their    *)
(* fetch; `by` tells a call made by an event handler or effect ("page")    *)
(* from one made by send's Promise.all ("send").  A call's settling and    *)
(* the code that runs after its await are one step.  fetchMe only sets     *)
(* `me`, which none of these functions reads, and is left out.             *)
(***************************************************************************)
MaxFetches == 3     \* calls started by the page that are in flight together

ConversationIds == {1, 2}

MessagesMounted ==
    [activeId |-> Null, conv |-> Null, sending |-> FALSE, body |-> "",
     threads |-> <<>>, loading |-> TRUE]

ThreadsCall(by) == [fn |-> "fetchThreads", by |-> by]
ConversationCall(cid, by) == [fn |-> "fetchConversation", cid |-> cid, by |-> by]
SendCall(cid) == [fn |-> "send", at |-> "post", cid |-> cid, r |-> "none", pending |-> 0]

ByPage(n) == {t \in BagToSet(n) : t.fn # "send" /\ t.by = "page"}

InFlightByPage(n) ==
    LET RECURSIVE Sum(_)
        Sum(S) == IF S = {} THEN 0
                  ELSE LET t == CHOOSE x \in S : TRUE IN CopiesIn(t, n) + Sum(S \ {t})
    IN  Sum(ByPage(n))

\* a call made by send's Promise.all has settled: when it was the last of the
\* two, send's finally block runs (setSending(false)) and send returns
AfterSettled(t, pg, n) ==
    IF t.by = "send"
    THEN LET parent == CHOOSE s \in BagToSet(n) : s.fn = "send"
             rest == n (-) SetToBag({parent})
         IN  IF parent.pending = 1
             THEN [page |-> [pg EXCEPT !.sending = FALSE], net |-> rest]
             ELSE [page |-> pg,
                   net |-> rest (+) SetToBag({[parent EXCEPT !.pending = @ - 1]})]
    ELSE [page |-> pg, net |-> n]

\* a response is dropped when its conversation is no longer the selected one
fetchConversationResumeIfActive(t, outcome) ==
    IF Num(t.cid) # page.activeId THEN page.conv
    ELSE IF outcome = "ok" THEN [conversation_id |-> t.cid] ELSE Null

\* fetchConversation after its await: setConv(j), or setConv(null) in the catch
fetchConversationResume(t, outcome) ==
    IF outcome = "ok" THEN [conversation_id |-> t.cid] ELSE Null

\* the refresh is also started from the catch block
sendResumeRefreshingAlways(t, outcome) ==
    [page |-> [page EXCEPT !.body = IF outcome = "ok" THEN "" ELSE @, !.loading = TRUE],
     net |-> ((net (-) SetToBag({t}))
                (+) SetToBag({[t EXCEPT !.at = "refresh", !.r = outcome, !.pending = 2]}))
                (+) SetToBag({ConversationCall(t.cid, "send")})
                (+) SetToBag({ThreadsCall("send")})]

\* send after the POST settled: on success setBody("") and
\* Promise.all([fetchConversation(activeId), fetchThreads()]) (fetchThreads sets
\* loading before its own await); on failure the catch and the finally block
sendResume(t, outcome) ==
    IF outcome = "ok"
    THEN [page |-> [page EXCEPT !.body = "", !.loading = TRUE],
          net |-> ((net (-) SetToBag({t}))
                     (+) SetToBag({[t EXCEPT !.at = "refresh", !.r = outcome, !.pending = 2]}))
                     (+) SetToBag({ConversationCall(t.cid, "send")})
                     (+) SetToBag({ThreadsCall("send")})]
    ELSE [page |-> [page EXCEPT !.sending = FALSE],
          net |-> net (-) SetToBag({t})]

messagesRest == <<token, wasteMaterials, wizard, step, roles, form, matchResults,
                  settings, location>>

\* the Refresh button (disabled while loading): fetchThreads()
RefreshThreads ==
    /\ token # Null
    /\ ~page.loading
    /\ InFlightByPage(net) < MaxFetches
    /\ page' = [page EXCEPT !.loading = TRUE]
    /\ net' = net (+) SetToBag({ThreadsCall("page")})
    /\ UNCHANGED messagesRest
    /\ UNCHANGED callVars

\* fetchThreads after its await: setThreads(j) or, in the catch, setThreads([]);
\* finally setLoading(false)
ThreadsSettle ==
    /\ \E t \in BagToSet(net) :
          /\ t.fn = "fetchThreads"
          /\ \E outcome \in {"ok", "failed"} :
                LET pg == [page EXCEPT !.threads = IF outcome = "ok" THEN <<1, 2>> ELSE <<>>,
                                       !.loading = FALSE]
                    after == AfterSettled(t, pg, net (-) SetToBag({t}))
                IN  page' = after.page /\ net' = after.net
    /\ UNCHANGED messagesRest
    /\ UNCHANGED callVars

\* a click on a thread row: setActiveId(id); the effect on [activeId] then calls
\* fetchConversation(activeId)
SelectThread ==
    /\ \E cid \in Range(page.threads) :
          /\ Num(cid) # page.activeId
          /\ page' = [page EXCEPT !.activeId = Num(cid)]
          /\ IF token # Null
             THEN /\ InFlightByPage(net) < MaxFetches
                  /\ net' = net (+) SetToBag({ConversationCall(cid, "page")})
             ELSE UNCHANGED net
    /\ UNCHANGED messagesRest
    /\ UNCHANGED callVars

ConversationSettle ==
    /\ \E t \in BagToSet(net) :
          /\ t.fn = "fetchConversation"
          /\ \E outcome \in {"ok", "failed"} :
                LET pg == [page EXCEPT !.conv = fetchConversationResume(t, outcome)]
                    after == AfterSettled(t, pg, net (-) SetToBag({t}))
                IN  page' = after.page /\ net' = after.net
    /\ UNCHANGED messagesRest
    /\ UNCHANGED callVars

\* the message input, rendered once a conversation is shown
TypeBody ==
    /\ page.activeId # Null
    /\ page.conv # Null
    /\ \E text \in {"", "hi"} : page' = [page EXCEPT !.body = text]
    /\ UNCHANGED net
    /\ UNCHANGED messagesRest
    /\ UNCHANGED callVars

\* the Send button (disabled while sending or with an empty body): send() up to
\* its await
Send ==
    /\ page.activeId # Null
    /\ page.conv # Null
    /\ ~page.sending
    /\ page.body # ""
    /\ token # Null
    /\ page' = [page EXCEPT !.sending = TRUE]
    /\ net' = net (+) SetToBag({SendCall(page.activeId.num)})
    /\ UNCHANGED messagesRest
    /\ UNCHANGED callVars

SendSettle ==
    /\ \E t \in BagToSet(net) :
          /\ t.fn = "send"
          /\ t.at = "post"
          /\ \E outcome \in {"ok", "failed"} :
                LET after == sendResume(t, outcome)
                IN  page' = after.page /\ net' = after.net
    /\ UNCHANGED messagesRest
    /\ UNCHANGED callVars

\* the page is mounted with a token: the effect on [token] has called
\* fetchThreads()
InitMessages ==
    /\ pc = "idle"
    /\ args = Null
    /\ ret = <<>>
    /\ token = Str("jwt")
    /\ wasteMaterials = <<>>
    /\ wizard = "factory"
    /\ step = 1
    /\ roles = <<>>
    /\ form = NoForm
    /\ matchResults = Null
    /\ settings = DefaultSettings
    /\ location = "/messages"
    /\ page = MessagesMounted
    /\ net = SetToBag({ThreadsCall("page")})

NextMessages ==
    \/ RefreshThreads
    \/ ThreadsSettle
    \/ SelectThread
    \/ ConversationSettle
    \/ TypeBody
    \/ Send
    \/ SendSettle

SpecMessages == InitMessages /\ [][NextMessages]_vars

SendChildren(n) == {t \in BagToSet(n) : t.fn # "send" /\ t.by = "send"}

SendCalls(n) == {t \in BagToSet(n) : t.fn = "send"}

\* C18: the two re-fetches of send (the conversation it was sent to and the
\* thread list) are in flight only while the send whose POST answered OK waits
\* for them; a send still waiting for its POST has started neither, and a send
\* whose POST failed is gone without having started any.
C18_RefetchOnlyAfterSendOk ==
    /\ SendChildren(net) # {} => \E s \in SendCalls(net) : s.at = "refresh"
    /\ \A s \in SendCalls(net) :
          /\ CopiesIn(s, net) = 1
          /\ s.at = "post" => SendChildren(net) = {}
          /\ s.at = "refresh" =>
                /\ s.r = "ok"
                /\ page.sending
                /\ SendChildren(net) \subseteq {ConversationCall(s.cid, "send"), ThreadsCall("send")}
                /\ \A c \in SendChildren(net) : CopiesIn(c, net) = 1
                /\ s.pending = Cardinality(SendChildren(net))
                /\ s.pending \in {1, 2}

\* C18 witness: a POST answered OK and both re-fetches are in flight.
C18_Witness ==
    /\ \E s \in SendCalls(net) : s.at = "refresh" /\ s.r = "ok" /\ s.pending = 2
    /\ SendChildren(net) = {ConversationCall(1, "send"), ThreadsCall("send")}
    /\ page.sending

\* C19: fetches are never cancelled: selecting another conversation leaves every
\* call in flight, and whenever a fetchConversation call settles the displayed
\* conversation becomes that call's conversation (or null when it failed),
\* whether or not it is the selected one.
C19_LastResponseWins ==
    [][/\ page'.activeId # page.activeId =>
             \A t \in BagToSet(net) : CopiesIn(t, net') >= CopiesIn(t, net)
       /\ \A t \in BagToSet(net) :
             (t.fn = "fetchConversation" /\ CopiesIn(t, net') < CopiesIn(t, net)) =>
                 page'.conv \in {[conversation_id |-> t.cid], Null}
      ]_vars

\* C19 witness: conversation 2 is selected, nothing is in flight any more, and
\* the conversation on display is 1: the response for the superseded selection
\* arrived last.
C19_Witness ==
    /\ page.activeId = Num(2)
    /\ page.conv = [conversation_id |-> 1]
    /\ net = EmptyBag
    /\ ~page.sending
    /\ page.body = ""

(***************************************************************************)
(* FactoryWizard.tsx: ensureAuthToken(email, password).  pc is the await    *)
(* the call is suspended at ("register", "login": the two fetches;         *)
(* "json", "text": the reading of the body of the response in r), args     *)
(* holds the parameters and the local r, ret what the call returned or     *)
(* threw, and page is the exchange with the server: the requests issued    *)
(* and the responses received, in order.  A fetch that settles and the     *)
(* code up to the next await are one step.                                 *)
(***************************************************************************)
Statuses == {200, 201, 400, 409, 500}

\* Response.ok
ok(r) == r.status \in 200..299

\* a response body: its text, whether it parses as JSON, and the token member
\* of the parsed object (Undefined when the object has none)
Bodies ==
    {[text |-> "", valid |-> FALSE, token |-> Undefined],
     [text |-> "{}", valid |-> TRUE, token |-> Undefined],
     [text |-> "{token}", valid |-> TRUE, token |-> Str("jwt")]}

Responses == [status : Statuses, body : Bodies]

NetworkError == [rejected |-> "TypeError: Failed to fetch"]

Credentials == [email : {"a@x", "b@x"}, password : {"p", "q"}]

Request(url, a) == [url |-> url, email |-> a.email, password |-> a.password]

Returned(v) == [returned |-> v]
Thrown(e) == [thrown |-> e]

InitAuth ==
    /\ pc = "register"
    /\ \E c \in Credentials : args = [email |-> c.email, password |-> c.password, r |-> Null]
    /\ ret = Null
    /\ token = Null
    /\ wasteMaterials = <<>>
    /\ wizard = "factory"
    /\ step = 1
    /\ roles = <<>>
    /\ form = NoForm
    /\ matchResults = Null
    /\ settings = DefaultSettings
    /\ location = "/factories/new"
    /\ net = EmptyBag
    /\ page = [requests |-> <<Request("/auth/register", args)>>, responses |-> <<>>]

authRest == <<token, wasteMaterials, wizard, step, roles, form, matchResults,
              settings, location, net>>

\* the call ends: it returns or throws
Settle(result) ==
    /\ pc' = "done"
    /\ ret' = result

\* the fetch rejects (no response): the await throws out of ensureAuthToken
FetchRejected ==
    /\ pc \in {"register", "login"}
    /\ Settle(Thrown(NetworkError.rejected))
    /\ UNCHANGED <<args, page>>
    /\ UNCHANGED authRest

\* login is attempted whatever the non-OK register status was
afterRegisterLoginOnAnyFailure(r) ==
    IF ok(r) THEN "json" ELSE "login"

\* where the code goes with the register response r
afterRegister(r) ==
    IF ok(r) THEN "json"
    ELSE IF r.status = 409 THEN "login"
    ELSE "text"

\* the register fetch answers
RegisterAnswered ==
    /\ pc = "register"
    /\ \E r \in Responses :
          /\ args' = [args EXCEPT !.r = r]
          /\ pc' = afterRegister(r)
          /\ page' = [requests |-> IF pc' = "login"
                                   THEN Append(page.requests, Request("/auth/login", args))
                                   ELSE page.requests,
                      responses |-> Append(page.responses, r)]
    /\ UNCHANGED ret
    /\ UNCHANGED authRest

\* the login fetch answers
LoginAnswered ==
    /\ pc = "login"
    /\ \E r \in Responses :
          /\ args' = [args EXCEPT !.r = r]
          /\ pc' = IF ~ok(r) THEN "text" ELSE "json"
          /\ page' = [page EXCEPT !.responses = Append(@, r)]
    /\ UNCHANGED ret
    /\ UNCHANGED authRest

\* (await r.json()).token: r.json() rejects on a body that is not JSON
JsonRead ==
    /\ pc = "json"
    /\ Settle(IF args.r.body.valid THEN Returned(args.r.body.token)
              ELSE Thrown("SyntaxError"))
    /\ UNCHANGED <<args, page>>
    /\ UNCHANGED authRest

\* throw new Error(await r.text() || `... failed (${r.status})`)
TextRead ==
    /\ pc = "text"
    /\ Settle(Thrown(IF args.r.body.text # "" THEN args.r.body.text ELSE "failed"))
    /\ UNCHANGED <<args, page>>
    /\ UNCHANGED authRest

NextAuth ==
    \/ FetchRejected
    \/ RegisterAnswered
    \/ LoginAnswered
    \/ JsonRead
    \/ TextRead

SpecAuth == InitAuth /\ [][NextAuth]_vars

Urls(requests) == [i \in 1..Len(requests) |-> requests[i].url]

\* C21: ensureAuthToken always requests /auth/register first, and requests
\* /auth/login (once, after it) exactly when the register response had status
\* 409; when it has ended, it returned only if the last response it received
\* was OK (the register response, or the login response after a 409), and it
\* threw whenever the register status was neither OK nor 409 and whenever the
\* login response was not OK.
C21_RegisterFirstLoginOn409 ==
    LET urls == Urls(page.requests)
        resp == page.responses
    IN  /\ urls \in {<<"/auth/register">>, <<"/auth/register", "/auth/login">>}
        /\ Len(resp) <= Len(urls)
        /\ \A i \in 1..Len(page.requests) :
              page.requests[i].email = args.email /\ page.requests[i].password = args.password
        /\ Len(urls) = 2 <=> (Len(resp) >= 1 /\ resp[1].status = 409)
        /\ pc = "done" =>
              /\ "returned" \in DOMAIN ret =>
                    /\ Len(resp) = Len(urls)
                    /\ ok(resp[Len(resp)])
                    /\ ret.returned = resp[Len(resp)].body.token
              /\ (Len(resp) >= 1 /\ ~ok(resp[Len(resp)])) => "thrown" \in DOMAIN ret

\* C21 witness: register answered 409, login answered OK, and the call
\* returned the token of the login response.
C21_Witness ==
    /\ pc = "done"
    /\ Len(page.responses) = 2
    /\ page.responses[1].status = 409
    /\ ret = Returned(Str("jwt"))

(***************************************************************************)
(* Cycles.tsx: the page's state (loading, materials, cycles, selectedIdx)  *)
(* is `page`; `net` holds the call of fetchMaterialsAndCycles or           *)
(* handleGenerateDemo suspended at a fetch,                                *)
(*     [fn |-> the function, at |-> "seed" | "materials" | "cycles",       *)
(*      res |-> the /match/all response it holds (Null before it has one), *)
(*      graph |-> the body it posted to /cycles (Null before that)],       *)
(* and ret is what the fetch that settled last returned: a response or     *)
(* NetworkError.  A fetch that settles, the reading of its body            *)
(* (`await res.json().catch(() => ({}))`) and the code up to the next      *)
(* fetch are one step.  The token is the one the component rendered with.  *)
(***************************************************************************)
CycleStatuses == {200, 500}

MaterialsA == <<GeneratorRow(1, "A", FlyAsh), ReceiverRow(2, "B", flyAshBlank)>>
MaterialsAB == <<GeneratorRow(1, "A", FlyAsh), ReceiverRow(2, "B", flyAshBlank),
                 GeneratorRow(2, "B", Slag), ReceiverRow(1, "A", Slag)>>

\* bodies of /match/all: not JSON, JSON without materials_full, materials_full
\* not an array, and two arrays
MaterialsBodies ==
    {[valid |-> FALSE, materials_full |-> Undefined],
     [valid |-> TRUE, materials_full |-> Undefined],
     [valid |-> TRUE, materials_full |-> Null],
     [valid |-> TRUE, materials_full |-> Arr(MaterialsA)],
     [valid |-> TRUE, materials_full |-> Arr(MaterialsAB)]}

\* bodies of /cycles
CyclesBodies ==
    {[valid |-> FALSE, cycles |-> Undefined],
     [valid |-> TRUE, cycles |-> Undefined],
     [valid |-> TRUE, cycles |-> Arr(<<>>)],
     [valid |-> TRUE, cycles |-> Arr(<<<<"A", "B">>>>)],
     [valid |-> TRUE, cycles |-> Arr(<<<<"A", "B">>, <<"B", "A">>>>)]}

MaterialsResponses == [status : CycleStatuses, body : MaterialsBodies]
CyclesResponses == [status : CycleStatuses, body : CyclesBodies]
SeedResponses == [status : CycleStatuses, body : {[valid |-> FALSE]}]

\* !token
falsy(t) == t = Null \/ t = Str("")

CyclesMounted == [loading |-> FALSE, materials |-> <<>>, cycles |-> <<>>, selectedIdx |-> Null]

CyclesRun(fn, at, res, graph) == [fn |-> fn, at |-> at, res |-> res, graph |-> graph]

cyclesRest == <<pc, args, token, wasteMaterials, wizard, step, roles, form, matchResults,
                settings, location>>

\* fetchMaterialsAndCycles() up to its first await, called by function `fn`
fetchMaterialsAndCycles(pg, n, fn) ==
    IF falsy(token)
    THEN page' = pg /\ net' = n
    ELSE /\ page' = [pg EXCEPT !.loading = TRUE]
         /\ net' = n (+) SetToBag({CyclesRun(fn, "materials", Null, Null)})

\* catch and finally of fetchMaterialsAndCycles
catchCycles(t) ==
    /\ page' = [page EXCEPT !.cycles = <<>>, !.selectedIdx = Null, !.loading = FALSE]
    /\ net' = net (-) SetToBag({t})

\* data?.materials_full when it is an array, else []
materialsOf(res) ==
    IF res.body.valid /\ IsArray(res.body.materials_full) THEN res.body.materials_full.arr
    ELSE <<>>

\* the status of the /match/all response is not looked at
materialsAnsweredUnchecked(t, res) ==
    LET materials_full == materialsOf(res)
    IN  /\ page' = [page EXCEPT !.materials = materials_full]
        /\ net' = (net (-) SetToBag({t}))
                    (+) SetToBag({CyclesRun(t.fn, "cycles", res, buildGraph(materials_full))})

\* /match/all answered with res: lines 51-82
materialsAnswered(t, res) ==
    IF ~ok(res) THEN catchCycles(t)
    ELSE LET materials_full == materialsOf(res)
         IN  /\ page' = [page EXCEPT !.materials = materials_full]
             /\ net' = (net (-) SetToBag({t}))
                         (+) SetToBag({CyclesRun(t.fn, "cycles", res, buildGraph(materials_full))})

\* /cycles answered with cycRes: lines 83-96
cyclesAnswered(t, cycRes) ==
    IF ~ok(cycRes) THEN catchCycles(t)
    ELSE LET out == IF cycRes.body.valid /\ IsArray(cycRes.body.cycles)
                    THEN cycRes.body.cycles.arr ELSE <<>>
         IN  /\ page' = [page EXCEPT !.cycles = out,
                                     !.selectedIdx = IF Len(out) # 0 THEN Num(0) ELSE Null,
                                     !.loading = FALSE]
             /\ net' = net (-) SetToBag({t})

\* the Refresh button (disabled while loading)
RefreshCycles ==
    /\ ~page.loading
    /\ fetchMaterialsAndCycles(page, net, "fetchMaterialsAndCycles")
    /\ UNCHANGED ret
    /\ UNCHANGED cyclesRest

\* the "Generate demo" button (disabled while loading): handleGenerateDemo up
\* to its first await
HandleGenerateDemo ==
    /\ ~page.loading
    /\ IF falsy(token)
       THEN UNCHANGED <<page, net>>
       ELSE /\ page' = [page EXCEPT !.loading = TRUE]
            /\ net' = net (+) SetToBag({CyclesRun("handleGenerateDemo", "seed", Null, Null)})
    /\ UNCHANGED ret
    /\ UNCHANGED cyclesRest

\* /demo/cyclic-data answered or the fetch rejected; on OK handleGenerateDemo
\* calls fetchMaterialsAndCycles and awaits it
SeedSettle ==
    \E t \in BagToSet(net) :
        /\ t.at = "seed"
        /\ \E res \in SeedResponses \cup {NetworkError} :
              /\ ret' = res
              /\ IF res # NetworkError /\ ok(res)
                 THEN fetchMaterialsAndCycles(page, net (-) SetToBag({t}), "handleGenerateDemo")
                 ELSE /\ page' = [page EXCEPT !.loading = FALSE]
                      /\ net' = net (-) SetToBag({t})
        /\ UNCHANGED cyclesRest

MaterialsSettle ==
    \E t \in BagToSet(net) :
        /\ t.at = "materials"
        /\ \E res \in MaterialsResponses \cup {NetworkError} :
              /\ ret' = res
              /\ IF res = NetworkError THEN catchCycles(t) ELSE materialsAnswered(t, res)
        /\ UNCHANGED cyclesRest

CyclesSettle ==
    \E t \in BagToSet(net) :
        /\ t.at = "cycles"
        /\ \E cycRes \in CyclesResponses \cup {NetworkError} :
              /\ ret' = cycRes
              /\ IF cycRes = NetworkError THEN catchCycles(t) ELSE cyclesAnswered(t, cycRes)
        /\ UNCHANGED cyclesRest

\* a row of the cycle list is clicked
SelectCycle ==
    /\ ~page.loading
    /\ \E idx \in 0..(Len(page.cycles) - 1) : page' = [page EXCEPT !.selectedIdx = Num(idx)]
    /\ UNCHANGED <<ret, net>>
    /\ UNCHANGED cyclesRest

\* the page is mounted: the effect has called fetchMaterialsAndCycles()
InitCycles ==
    /\ pc = "idle"
    /\ args = Null
    /\ ret = Null
    /\ token \in {Null, Str(""), Str("jwt")}
    /\ wasteMaterials = <<>>
    /\ wizard = "factory"
    /\ step = 1
    /\ roles = <<>>
    /\ form = NoForm
    /\ matchResults = Null
    /\ settings = DefaultSettings
    /\ location = "/cycles"
    /\ page = [CyclesMounted EXCEPT !.loading = ~falsy(token)]
    /\ net = IF falsy(token) THEN EmptyBag
             ELSE SetToBag({CyclesRun("fetchMaterialsAndCycles", "materials", Null, Null)})

NextCycles ==
    \/ RefreshCycles
    \/ HandleGenerateDemo
    \/ SeedSettle
    \/ MaterialsSettle
    \/ CyclesSettle
    \/ SelectCycle

SpecCycles == InitCycles /\ [][NextCycles]_vars

RunsAt(n, at) == {t \in BagToSet(n) : t.at = at}

Failed(res) == res = NetworkError \/ ~ok(res)

\* C22: a call of fetchMaterialsAndCycles waits for POST /cycles only with an
\* OK /match/all response behind it, and the graph it posted is the one built
\* from the materials_full of that response; the POST is issued in the step in
\* which /match/all answered OK and in no other; when either request fails
\* (non-OK or rejected) the cycle list becomes empty, selectedIdx null and
\* loading false; when the run ends, loading is false; and with no token
\* nothing is ever in flight and loading stays false.
C22_CyclesAfterMaterialsOk ==
    /\ [](/\ \A t \in RunsAt(net, "cycles") :
                /\ t.res \in MaterialsResponses /\ ok(t.res)
                /\ t.graph = buildGraph(IF IsArray(t.res.body.materials_full)
                                        THEN t.res.body.materials_full.arr ELSE <<>>)
          /\ \A t \in RunsAt(net, "materials") \cup RunsAt(net, "seed") :
                t.res = Null /\ t.graph = Null
          /\ falsy(token) => (net = EmptyBag /\ ~page.loading /\ ret = Null))
    /\ [][/\ (RunsAt(net', "cycles") # {} /\ RunsAt(net, "cycles") = {}) =>
                /\ RunsAt(net, "materials") # {}
                /\ ~Failed(ret')
                /\ \A t \in RunsAt(net', "cycles") : t.res = ret'
          /\ (RunsAt(net, "materials") \cup RunsAt(net, "cycles") # {} /\ Failed(ret')) =>
                /\ page'.cycles = <<>>
                /\ page'.selectedIdx = Null
                /\ net' = EmptyBag
          /\ (net # EmptyBag /\ net' = EmptyBag) => ~page'.loading
      ]_vars

\* C22 witness: /match/all answered OK with a generator and a receiver of the
\* same material, and the call waits for /cycles with the one-edge graph
\* posted.
C22_Witness ==
    \E t \in RunsAt(net, "cycles") :
        /\ t.res.body.materials_full = Arr(MaterialsA)
        /\ HasEdge(t.graph, "A", "B")
        /\ page.loading

(***************************************************************************)
(* ManageFactories.tsx.  `page` is the component's state (rows, loading),  *)
(* Null once the page is unmounted; `net` holds the load started by the     *)
(* effect and the calls of handleDelete suspended at their fetch; ret is   *)
(* what the fetch that settled last returned.  A fetch that settles, the   *)
(* reading of its body and the code after it are one step.  A state setter *)
(* called after the page was unmounted has no effect.                      *)
(***************************************************************************)
MaxDeletes == 2     \* calls of handleDelete suspended at the same time

Bool(b) == [bool |-> b]

\* JavaScript truthiness
truthy(v) == v \notin {Null, Undefined, Bool(FALSE), Num(0), Str("")}

ManagePath == "/manage-waste-materials"

\* a normalized row and a legacy snapshot (which has no `common`)
NormalizedRow(id, name) == [id |-> id, common |-> [factory_name |-> name]]
LegacyRow(id) == [id |-> id, records |-> <<>>]

RowLists ==
    {<<>>,
     <<NormalizedRow(Num(1), "A"), NormalizedRow(Num(2), "B")>>,
     <<NormalizedRow(Num(1), "A"), LegacyRow(Num(1)), NormalizedRow(Num(1), "A2"),
       NormalizedRow(Str("1"), "C")>>}

\* rows.filter(r => r && r.common && typeof r.id === "number")
deletable(rows) ==
    SelectSeq(rows, LAMBDA r : "common" \in DOMAIN r /\ DOMAIN r.id = {"num"})

\* prev.filter(r => r?.id !== factoryId)
withoutFactory(prev, factoryId) == SelectSeq(prev, LAMBDA r : r.id # factoryId)

DeleteStatuses == {200, 401, 404}

DeleteBodies ==
    {[valid |-> FALSE, success |-> Undefined],
     [valid |-> TRUE, success |-> Undefined],
     [valid |-> TRUE, success |-> Bool(FALSE)],
     [valid |-> TRUE, success |-> Bool(TRUE)]}

DeleteResponses == [status : DeleteStatuses, body : DeleteBodies]
LoadResponses == [status : DeleteStatuses, body : [valid : {TRUE}, rows : RowLists]]

LoadCall == [fn |-> "load"]
DeleteCall(factoryId) == [fn |-> "handleDelete", factoryId |-> factoryId]

manageRest == <<pc, args, wasteMaterials, wizard, step, roles, form, matchResults, settings>>

\* navigate(path) from the page: another route is rendered
leave(path) ==
    /\ location' = path
    /\ page' = Null

\* the load started by the effect settles: lines 49-71
LoadSettle ==
    /\ LoadCall \in BagToSet(net)
    /\ net' = net (-) SetToBag({LoadCall})
    /\ \E res \in LoadResponses \cup {NetworkError} :
          /\ ret' = res
          /\ IF page = Null THEN UNCHANGED <<page, location>>
             ELSE IF res # NetworkError /\ res.status = 401 THEN leave("/auth/login")
             ELSE /\ page' = [rows |-> IF res # NetworkError /\ ok(res) THEN res.body.rows
                                       ELSE page.rows,
                              loading |-> FALSE]
                  /\ UNCHANGED location
    /\ UNCHANGED token
    /\ UNCHANGED manageRest

\* the Delete button of a displayed row, handleDelete(wm.id) up to its await;
\* window.confirm answers `confirmed`
HandleDelete ==
    /\ page # Null
    /\ \E i \in 1..Len(deletable(page.rows)), confirmed \in BOOLEAN :
          IF falsy(token) THEN leave("/auth/login") /\ UNCHANGED net
          ELSE IF ~confirmed THEN UNCHANGED <<page, location, net>>
          ELSE /\ BagCardinality(net) < MaxDeletes
               /\ net' = net (+) SetToBag({DeleteCall(deletable(page.rows)[i].id)})
               /\ UNCHANGED <<page, location>>
    /\ UNCHANGED <<ret, token>>
    /\ UNCHANGED manageRest

\* data?.success is not looked at
deleteAnsweredIgnoringSuccess(t, res) ==
    IF res.status = 401 THEN IF page = Null THEN UNCHANGED <<page, location>>
                             ELSE leave("/auth/login")
    ELSE IF ~ok(res) THEN UNCHANGED <<page, location>>
    ELSE /\ page' = IF page = Null THEN Null
                    ELSE [page EXCEPT !.rows = withoutFactory(@, t.factoryId)]
         /\ UNCHANGED location

\* DELETE /factories/{id} answered with res: lines 88-101
deleteAnswered(t, res) ==
    LET data == IF res.body.valid THEN res.body ELSE [success |-> Undefined]
    IN  IF res.status = 401 THEN IF page = Null THEN UNCHANGED <<page, location>>
                                 ELSE leave("/auth/login")
        ELSE IF ~ok(res) \/ ~truthy(data.success) THEN UNCHANGED <<page, location>>
        ELSE /\ page' = IF page = Null THEN Null
                        ELSE [page EXCEPT !.rows = withoutFactory(@, t.factoryId)]
             /\ UNCHANGED location

DeleteSettle ==
    \E t \in BagToSet(net) :
        /\ t.fn = "handleDelete"
        /\ net' = net (-) SetToBag({t})
        /\ \E res \in DeleteResponses \cup {NetworkError} :
              /\ ret' = res
              /\ IF res = NetworkError THEN UNCHANGED <<page, location>>
                 ELSE deleteAnswered(t, res)
        /\ UNCHANGED token
        /\ UNCHANGED manageRest

\* the store's token is cleared (AppShell.handleLogout: setToken(null))
ClearToken ==
    /\ page # Null
    /\ token # Null
    /\ token' = Null
    /\ UNCHANGED <<ret, net, page, location>>
    /\ UNCHANGED manageRest

\* the page is rendered without a token: the effect on [token] (and
\* handleLogout itself) goes to /auth/login
TokenEffect ==
    /\ page # Null
    /\ falsy(token)
    /\ leave("/auth/login")
    /\ UNCHANGED <<ret, net, token>>
    /\ UNCHANGED manageRest

\* the page is mounted with a token and the effect has started the load
InitManage ==
    /\ pc = "idle"
    /\ args = Null
    /\ ret = Null
    /\ token = Str("jwt")
    /\ wasteMaterials = <<>>
    /\ wizard = "factory"
    /\ step = 1
    /\ roles = <<>>
    /\ form = NoForm
    /\ matchResults = Null
    /\ settings = DefaultSettings
    /\ location = ManagePath
    /\ page = [rows |-> <<>>, loading |-> TRUE]
    /\ net = SetToBag({LoadCall})

NextManage ==
    \/ LoadSettle
    \/ HandleDelete
    \/ DeleteSettle
    \/ ClearToken
    \/ TokenEffect

SpecManage == InitManage /\ [][NextManage]_vars

DeleteCalls(n) == {t \in BagToSet(n) : t.fn = "handleDelete"}

DeletesInFlight(n) == BagCardinality(n) - CopiesIn(LoadCall, n)

\* C23: the rows of the page change, apart from the initial load, only in the
\* step in which a DELETE /factories/{id} issued by handleDelete answered OK
\* with success true, and then exactly the rows with that id go (from rows and
\* so from the displayed list); such a DELETE is issued only with a token and
\* without touching the list; a 401, a non-OK answer, an answer without
\* success and a rejected request leave the rows as they are.
C23_DeleteOnlyAfterServerSuccess ==
    [][(page # Null /\ page' # Null) =>
          /\ (page'.rows # page.rows /\ CopiesIn(LoadCall, net') = CopiesIn(LoadCall, net)) =>
                \E t \in DeleteCalls(net) :
                    /\ net' = net (-) SetToBag({t})
                    /\ ret' \in DeleteResponses
                    /\ ret'.status \in 200..299 /\ ret'.status # 401
                    /\ ret'.body.valid /\ ret'.body.success = Bool(TRUE)
                    /\ page'.rows = SelectSeq(page.rows, LAMBDA r : r.id # t.factoryId)
                    /\ deletable(page'.rows)
                         = SelectSeq(deletable(page.rows), LAMBDA r : r.id # t.factoryId)
          /\ DeletesInFlight(net') > DeletesInFlight(net) =>
                (~falsy(token) /\ page' = page)
          /\ (DeletesInFlight(net') < DeletesInFlight(net)
                /\ (ret' = NetworkError \/ ~(ret'.status \in 200..299)
                      \/ ~ret'.body.valid \/ ret'.body.success # Bool(TRUE))) =>
                page'.rows = page.rows
          /\ (DeletesInFlight(net') < DeletesInFlight(net)
                /\ ret' # NetworkError /\ ret'.status \in 200..299
                /\ ret'.body.valid /\ ret'.body.success = Bool(TRUE)) =>
                \E t \in DeleteCalls(net) :
                    /\ net' = net (-) SetToBag({t})
                    /\ page'.rows = SelectSeq(page.rows, LAMBDA r : r.id # t.factoryId)
      ]_vars

\* C23 witness: of the rows with ids 1 and 2 the one with id 1 was deleted
\* after the server answered OK with success true.
C23_Witness ==
    /\ page # Null
    /\ page.rows = <<NormalizedRow(Num(2), "B")>>
    /\ ret \in DeleteResponses
    /\ ret.status = 200 /\ ret.body.success = Bool(TRUE)
    /\ net = EmptyBag

(***************************************************************************)
(* Login (part_001) and Register.tsx.  `page` is the state of the mounted  *)
(* form (which of the two, its inputs, loading), Null on /dashboard; `net` *)
(* holds the calls of handleSubmit suspended at their fetch, each with     *)
(* `mounted`: whether the component that made the call is still mounted    *)
(* (a setLoading of an unmounted component has no effect); ret is what the *)
(* fetch that settled last returned.  A fetch that settles, `await         *)
(* res.text()` and the code after it are one step.  Inputs are             *)
(* character-level strings.                                                *)
(***************************************************************************)
MaxAttempts == 2    \* calls of handleSubmit suspended at the same time

MinPasswordLength == 8

Emails == {<<>>, <<" ">>, <<"a", "@", "x">>}

LongPassword == [i \in 1..MinPasswordLength |-> "p"]

Passwords == {<<>>, <<"p">>, LongPassword}

\* the routes App wraps in <AuthGuard>
GuardedPaths == {"/dashboard", "/waste-materials/new", "/manage-waste-materials",
                 "/match", "/cycles", "/settings"}

AuthPath(f) == IF f = "login" THEN "/auth/login" ELSE "/auth/register"

AuthMounted(f) ==
    [form |-> f, email |-> <<>>, password |-> <<>>, confirmPassword |-> <<>>,
     loading |-> FALSE]

\* bodies of the auth responses: the raw text, whether JSON.parse accepts it,
\* and the parsed value (Null for the JSON text null; token Undefined when
\* the object has no token member)
AuthBodies ==
    {[raw |-> "", valid |-> FALSE, json |-> Null],
     [raw |-> "<html>", valid |-> FALSE, json |-> Null],
     [raw |-> "null", valid |-> TRUE, json |-> Null],
     [raw |-> "{}", valid |-> TRUE, json |-> [token |-> Undefined]],
     [raw |-> "{token:''}", valid |-> TRUE, json |-> [token |-> Str("")]],
     [raw |-> "{token:'jwt'}", valid |-> TRUE, json |-> [token |-> Str("jwt")]]}

AuthStatuses == {200, 401}

AuthResponses == [status : AuthStatuses, body : AuthBodies]

AuthCall(f) == [fn |-> f, mounted |-> TRUE]

loginRest == <<pc, args, wasteMaterials, wizard, step, roles, form, matchResults, settings>>

\* the components that made the calls in flight are unmounted
Orphaned(n) ==
    LET calls == BagToSet(n)
        count(f) == CopiesIn([fn |-> f, mounted |-> TRUE], n)
                      + CopiesIn([fn |-> f, mounted |-> FALSE], n)
    IN  [t \in {[fn |-> f, mounted |-> FALSE] : f \in {c.fn : c \in calls}} |-> count(t.fn)]

\* an input of the mounted form is typed into
TypeAuthInput ==
    /\ page # Null
    /\ \/ \E e \in Emails : page' = [page EXCEPT !.email = e]
       \/ \E pw \in Passwords : page' = [page EXCEPT !.password = pw]
       \/ /\ page.form = "register"
          /\ \E pw \in Passwords : page' = [page EXCEPT !.confirmPassword = pw]
    /\ UNCHANGED <<ret, token, net, location>>
    /\ UNCHANGED loginRest

\* the link between the two forms, or the address bar from /dashboard
OpenAuthForm ==
    /\ \E f \in {"login", "register"} :
          /\ location # AuthPath(f)
          /\ location' = AuthPath(f)
          /\ page' = AuthMounted(f)
    /\ net' = Orphaned(net)
    /\ UNCHANGED <<ret, token>>
    /\ UNCHANGED loginRest

\* the client-side checks of the two handleSubmit
invalid(pg) ==
    IF pg.form = "login"
    THEN trim(pg.email) = <<>> \/ pg.password = <<>>
    ELSE \/ trim(pg.email) = <<>>
         \/ Len(pg.password) < MinPasswordLength
         \/ pg.password # pg.confirmPassword

\* handleSubmit up to its await
AuthSubmit ==
    /\ page # Null
    /\ IF page.loading \/ invalid(page)
       THEN UNCHANGED <<page, net>>
       ELSE /\ BagCardinality(net) < MaxAttempts
            /\ page' = [page EXCEPT !.loading = TRUE]
            /\ net' = net (+) SetToBag({AuthCall(page.form)})
    /\ UNCHANGED <<ret, token, location>>
    /\ UNCHANGED loginRest

\* finally { setLoading(false) } of the call t
finallyAuth(t, pg) ==
    IF pg # Null /\ t.mounted THEN [pg EXCEPT !.loading = FALSE] ELSE pg

\* raw ? JSON.parse(raw) : {}, with { raw } when JSON.parse throws
dataOf(res) ==
    IF res.body.raw = "" \/ ~res.body.valid THEN [token |-> Undefined]
    ELSE res.body.json

\* data?.token
tokenOf(data) == IF data = Null THEN Undefined ELSE data.token

\* the token of an OK response is stored whatever it is
authAnsweredStoringAny(t, res) ==
    IF ~ok(res)
    THEN page' = finallyAuth(t, page) /\ net' = net (-) SetToBag({t})
         /\ UNCHANGED <<token, location>>
    ELSE /\ token' = tokenOf(dataOf(res))
         /\ location' = "/dashboard"
         /\ page' = Null
         /\ net' = Orphaned(net (-) SetToBag({t}))

\* the fetch answered with res: lines 101-128 (Login), 55-86 (Register)
authAnswered(t, res) ==
    IF ~ok(res) \/ ~truthy(tokenOf(dataOf(res)))
    THEN page' = finallyAuth(t, page) /\ net' = net (-) SetToBag({t})
         /\ UNCHANGED <<token, location>>
    ELSE /\ token' = tokenOf(dataOf(res))
         /\ location' = "/dashboard"
         /\ page' = Null
         /\ net' = Orphaned(net (-) SetToBag({t}))

AuthSettle ==
    \E t \in BagToSet(net) :
        /\ \E res \in AuthResponses \cup {NetworkError} :
              /\ ret' = res
              /\ IF res = NetworkError
                 THEN page' = finallyAuth(t, page) /\ net' = net (-) SetToBag({t})
                      /\ UNCHANGED <<token, location>>
                 ELSE authAnswered(t, res)
        /\ UNCHANGED loginRest

\* AppShell.handleLogout on a page inside the shell
HandleLogout ==
    /\ location \in GuardedPaths
    /\ token' = Null
    /\ location' = "/auth/login"
    /\ page' = AuthMounted("login")
    /\ UNCHANGED <<ret, net>>
    /\ UNCHANGED loginRest

InitLogin ==
    /\ pc = "idle"
    /\ args = Null
    /\ ret = Null
    /\ token = Null
    /\ wasteMaterials = <<>>
    /\ wizard = "factory"
    /\ step = 1
    /\ roles = <<>>
    /\ form = NoForm
    /\ matchResults = Null
    /\ settings = DefaultSettings
    /\ location = "/auth/login"
    /\ page = AuthMounted("login")
    /\ net = EmptyBag

NextLogin ==
    \/ TypeAuthInput
    \/ OpenAuthForm
    \/ AuthSubmit
    \/ AuthSettle
    \/ HandleLogout

SpecLogin == InitLogin /\ [][NextLogin]_vars

\* the response carries a non-empty token
CarriesToken(res) ==
    /\ res \in AuthResponses
    /\ res.body.valid
    /\ res.body.json # Null
    /\ res.body.json.token \notin {Undefined, Str("")}

\* C26: a step of Login's or Register's handleSubmit changes the stored token,
\* or goes to /dashboard, only when the server answered OK with a non-empty
\* token, and then stores that token; a rejected validation issues no request
\* and changes nothing; a non-OK answer, an OK answer without token and a
\* rejected fetch leave the token and the location alone; and when a call has
\* finished, the form that made it, if still mounted, is not loading.
C26_TokenOnlyFromOkResponse ==
    [][/\ AuthSubmit =>
              /\ token' = token /\ location' = location
              /\ (~page.loading /\ invalid(page)) => (net' = net /\ page' = page)
              /\ net' # net => (~invalid(page) /\ page'.loading)
       /\ AuthSettle =>
              /\ BagCardinality(net') = BagCardinality(net) - 1
              /\ IF ret' # NetworkError /\ ret'.status \in 200..299 /\ CarriesToken(ret')
                 THEN token' = ret'.body.json.token /\ location' = "/dashboard"
                 ELSE token' = token /\ location' = location
              /\ \A f \in {"login", "register"} :
                    (/\ CopiesIn(AuthCall(f), net') < CopiesIn(AuthCall(f), net)
                     /\ page' # Null) => ~page'.loading
      ]_vars

\* C26 witness: a handleSubmit stored the token of an OK response and went
\* to /dashboard.
C26_Witness ==
    /\ token = Str("jwt")
    /\ location = "/dashboard"
    /\ page = Null
    /\ ret \in AuthResponses
    /\ ok(ret) /\ CarriesToken(ret)
    /\ net = EmptyBag

(***************************************************************************)
(* AuthGuard.tsx and the routes of App (part_000).  SpecGuard is SpecLogin *)
(* with the other routes: any path can be entered (a link or the address   *)
(* bar), and a guarded route renders through AuthGuard.  <Navigate         *)
(* replace> and the render that returned it are one step.  The persisted   *)
(* store may start with any token.                                         *)
(***************************************************************************)
OpenPaths == {"/", "/messages"}

Children == [render |-> "children"]
Navigate(to) == [navigate |-> to]

\* only null is taken for a missing token
AuthGuardNullOnly(t) ==
    IF t = Null THEN Navigate("/auth/login") ELSE Children

\* AuthGuard with the store's token t
AuthGuard(t) ==
    IF falsy(t) THEN Navigate("/auth/login") ELSE Children

\* the element Routes renders at `path`
routeElement(path) ==
    IF path \in GuardedPaths THEN AuthGuard(token) ELSE Children

\* the router enters `path`
visit(path) ==
    /\ location' = IF routeElement(path) = Children THEN path ELSE routeElement(path).navigate
    /\ page' = IF location' = "/auth/login" THEN AuthMounted("login") ELSE Null
    /\ net' = Orphaned(net)
    /\ UNCHANGED <<ret, token>>
    /\ UNCHANGED loginRest

VisitRoute == \E path \in GuardedPaths \cup OpenPaths : path # location /\ visit(path)

InitGuard ==
    /\ pc = "idle"
    /\ args = Null
    /\ ret = Null
    /\ token \in {Null, Str(""), Str("jwt")}
    /\ wasteMaterials = <<>>
    /\ wizard = "factory"
    /\ step = 1
    /\ roles = <<>>
    /\ form = NoForm
    /\ matchResults = Null
    /\ settings = DefaultSettings
    /\ location = "/"
    /\ page = Null
    /\ net = EmptyBag

NextGuard ==
    \/ VisitRoute
    \/ TypeAuthInput
    \/ OpenAuthForm
    \/ AuthSubmit
    \/ AuthSettle
    \/ HandleLogout

SpecGuard == InitGuard /\ [][NextGuard]_vars

\* C27: AuthGuard renders its children exactly when the store's token is
\* non-empty and otherwise navigates to /auth/login, so the router is on a
\* guarded route only with a token; entering any guarded route without one
\* ends at /auth/login; after logout the token is null, and a missing token
\* becomes a token only in the step in which Login or Register got an OK
\* response that carries one.
C27_GuardedRoutesNeedToken ==
    /\ [](/\ \A t \in {Null, Str(""), Str("jwt")} :
                /\ AuthGuard(t) = Children <=> t \notin {Null, Str("")}
                /\ AuthGuard(t) # Children => AuthGuard(t) = Navigate("/auth/login")
          /\ location \in GuardedPaths => token \notin {Null, Str("")})
    /\ [][/\ \A path \in GuardedPaths :
                visit(path) => location' = (IF token \in {Null, Str("")} THEN "/auth/login"
                                            ELSE path)
          /\ HandleLogout => (token' = Null /\ location' = "/auth/login")
          /\ (token \in {Null, Str("")} /\ token' \notin {Null, Str("")}) =>
                /\ AuthSettle
                /\ ret' \in AuthResponses /\ ret'.status \in 200..299
                /\ token' = ret'.body.json.token
      ]_vars

\* C27 witness: after a successful login and a logout the token is null again
\* and the router is on /auth/login with a freshly mounted form, whatever
\* guarded route was entered since.
C27_Witness ==
    /\ token = Null
    /\ ret \in AuthResponses
    /\ ok(ret) /\ CarriesToken(ret)
    /\ location = "/auth/login"
    /\ page = AuthMounted("login")
    /\ net = EmptyBag

====
